---- MODULE Spec2Model ----
(***************************************************************************)
(* A model of the dataflow execution engine: the NodeExecutor (dependency  *)
(* graph, sequential and level-parallel scheduling), the node execution    *)
(* contract (BaseNode.execute), the resilience wrapper                     *)
(* (ErrorHandlingNode.execute: RetryPolicy outermost, CircuitBreaker       *)
(* gating every attempt, fallback, dead-letter recording) and the          *)
(* process-wide DeadLetterQueue.                                           *)
(*                                                                         *)
(* Asynchronous functions are cut at their suspension points: one action   *)
(* per stretch of code that runs between two awaits.                       *)
(***************************************************************************)
EXTENDS Integers, Sequences, FiniteSets, TLC

VARIABLES
  nodes,             \* NodeExecutor.nodes: node ids in Map insertion order
  connections,       \* NodeExecutor.connections: Connection records in Map insertion order
  initialInputs,     \* the initialInputs argument of execute/executeParallel
  executingNodes,    \* NodeExecutor.executingNodes
  executionResults,  \* NodeExecutor.executionResults: node id -> ExecutionResult
  events,            \* the events emitted so far, in emission order
  run,               \* the execute/executeParallel call: mode, state, plan, position
  task,              \* per node: the position of its executeNode/execute call
  breaker,           \* per node: the CircuitBreaker of its errorConfig
  dlq,               \* DeadLetterQueue.entries in Map insertion order
  dlqSeq,            \* number of ids generateId has handed out
  now,               \* Date.now()
  retry,             \* a RetryPolicy and the position of one execute(fn) call on it
  cb,                \* a CircuitBreaker used on its own, and the calls made on it
  store,             \* a DeadLetterQueue used on its own
  graph              \* the INode objects of an executor under construction, and
                     \* the latest addNode/removeNode/addConnection/removeConnection call

vars == <<nodes, connections, initialInputs, executingNodes, executionResults,
          events, run, task, breaker, dlq, dlqSeq, now, retry, cb, store, graph>>

\* the state of an executor and of the nodes it runs
execVars == <<nodes, connections, initialInputs, executingNodes, executionResults,
              events, run, task, breaker, dlq, dlqSeq>>

\* the state of the components exercised on their own
unitVars == <<retry, cb, store, graph>>

----------------------------------------------------------------------------
(* Bounds of the model *)

\* the clock ticks freely up to MaxTime (a retry timer may carry it further)
MaxTime == 3

\* a graph holds at most MaxConns connections
MaxConns == 2

\* RetryConfig.maxAttempts of the retry policy of node "B"
MaxAttempts == 3

\* the clock of a circuit breaker used on its own ticks up to MaxClock
MaxClock == 5

\* a circuit breaker used on its own receives at most MaxCalls calls
MaxCalls == 5

\* a dead letter queue used on its own receives at most MaxAdds entries
MaxAdds == 3

\* the connections of a graph whose levels are built (SpecLevels)
MaxEdges == 3

\* the lifecycle events of an executor under construction (SpecGraph)
MaxEvents == 5

\* the connections of a graph whose order is built (SpecOrder)
MaxLinks == 4

\* a circuit breaker has at most MaxPending calls in flight at once (SpecCalls)
MaxPending == 3

\* the connections of an executor that is run twice (SpecBoth)
MaxWires == 2

----------------------------------------------------------------------------
(* Values, ports and node configurations *)

NodeIds == {"A", "B", "C"}

\* the two values that flow: a DataType validator accepts "v" and refuses "x"
Values == {"v", "x"}

validator(value) == value = "v"

EmptyMap == <<>>

\* the value of a component variable in a specification that does not use it
NoCall == <<>>

\* the nodes of the single-node runs: resilient nodes with a fallback
WrapIds == {"D", "E"}

\* the nodes of the runs made twice: plain BaseNodes
PlainIds == {"P", "Q", "R"}

\* Port.required / DataType.validator of the input port "in" and the output
\* port "out" of each node, and its ErrorHandlingConfig (maxAttempts = 0: no
\* retryPolicy; resilient = FALSE: a plain BaseNode).
NodeCfg(n) ==
  CASE n = "A" -> [resilient |-> FALSE, required |-> FALSE, inValidated |-> FALSE,
                   outValidated |-> TRUE, maxAttempts |-> 0, circuitBreaker |-> FALSE,
                   enableDLQ |-> FALSE, fallbackFn |-> FALSE, suppressErrors |-> FALSE]
    [] n = "B" -> [resilient |-> TRUE, required |-> FALSE, inValidated |-> TRUE,
                   outValidated |-> FALSE, maxAttempts |-> MaxAttempts, circuitBreaker |-> TRUE,
                   enableDLQ |-> TRUE, fallbackFn |-> FALSE, suppressErrors |-> FALSE]
    [] n = "D" -> [resilient |-> TRUE, required |-> FALSE, inValidated |-> FALSE,
                   outValidated |-> TRUE, maxAttempts |-> 2, circuitBreaker |-> FALSE,
                   enableDLQ |-> TRUE, fallbackFn |-> TRUE, suppressErrors |-> FALSE]
    [] n = "E" -> [resilient |-> TRUE, required |-> FALSE, inValidated |-> TRUE,
                   outValidated |-> TRUE, maxAttempts |-> 0, circuitBreaker |-> FALSE,
                   enableDLQ |-> TRUE, fallbackFn |-> TRUE, suppressErrors |-> FALSE]
    [] n = "P" -> [resilient |-> FALSE, required |-> FALSE, inValidated |-> FALSE,
                   outValidated |-> FALSE, maxAttempts |-> 0, circuitBreaker |-> FALSE,
                   enableDLQ |-> FALSE, fallbackFn |-> FALSE, suppressErrors |-> FALSE]
    [] n = "Q" -> [resilient |-> FALSE, required |-> TRUE, inValidated |-> FALSE,
                   outValidated |-> TRUE, maxAttempts |-> 0, circuitBreaker |-> FALSE,
                   enableDLQ |-> FALSE, fallbackFn |-> FALSE, suppressErrors |-> FALSE]
    [] n = "R" -> [resilient |-> FALSE, required |-> FALSE, inValidated |-> TRUE,
                   outValidated |-> FALSE, maxAttempts |-> 0, circuitBreaker |-> FALSE,
                   enableDLQ |-> FALSE, fallbackFn |-> FALSE, suppressErrors |-> FALSE]
    [] OTHER   -> [resilient |-> TRUE, required |-> TRUE, inValidated |-> FALSE,
                   outValidated |-> FALSE, maxAttempts |-> 0, circuitBreaker |-> FALSE,
                   enableDLQ |-> FALSE, fallbackFn |-> TRUE, suppressErrors |-> TRUE]

----------------------------------------------------------------------------
(* Sequence helpers *)

RECURSIVE SeqToSet(_)
SeqToSet(s) == IF s = <<>> THEN {} ELSE {Head(s)} \cup SeqToSet(Tail(s))

\* a variant of Max that takes its second argument
Latter(a, b) == b

Max(a, b) == IF a >= b THEN a ELSE b

\* a variant of Min that takes its first argument
Former(a, b) == a

Min(a, b) == IF a <= b THEN a ELSE b

----------------------------------------------------------------------------
(* Dependency graph *)

\* getNodeDependencies: the fromNode of every connection into nodeId, in
\* connection order, repeated when several connections share a source.
RECURSIVE getNodeDependencies(_, _)
getNodeDependencies(conns, nodeId) ==
  IF conns = <<>> THEN <<>>
  ELSE IF Head(conns).toNode = nodeId
       THEN <<Head(conns).fromNode>> \o getNodeDependencies(Tail(conns), nodeId)
       ELSE getNodeDependencies(Tail(conns), nodeId)

RECURSIVE visit(_, _, _)
RECURSIVE visitAll(_, _, _)

\* a variant of visit that takes an in-progress node for a done one
visitNoCycleCheck(conns, nodeId, st) ==
  IF nodeId \in st.visiting \cup st.visited THEN st
  ELSE LET st1 == [st EXCEPT !.visiting = @ \cup {nodeId}]
           st2 == visitAll(conns, getNodeDependencies(conns, nodeId), st1)
       IN [st2 EXCEPT !.visiting = @ \ {nodeId},
                      !.visited = @ \cup {nodeId},
                      !.order = Append(@, nodeId)]

\* a variant of visit that leaves a finished node in the in-progress set
visitKeepsMarker(conns, nodeId, st) ==
  IF st.cyclic THEN st
  ELSE IF nodeId \in st.visiting THEN [st EXCEPT !.cyclic = TRUE]
  ELSE IF nodeId \in st.visited THEN st
  ELSE LET st1 == [st EXCEPT !.visiting = @ \cup {nodeId}]
           st2 == visitAll(conns, getNodeDependencies(conns, nodeId), st1)
       IN IF st2.cyclic THEN st2
          ELSE [st2 EXCEPT !.visited = @ \cup {nodeId}, !.order = Append(@, nodeId)]

\* a variant of visit that puts the node in the order before its dependencies
visitBeforeDeps(conns, nodeId, st) ==
  IF st.cyclic THEN st
  ELSE IF nodeId \in st.visiting THEN [st EXCEPT !.cyclic = TRUE]
  ELSE IF nodeId \in st.visited THEN st
  ELSE LET st1 == [st EXCEPT !.visiting = @ \cup {nodeId}, !.order = Append(@, nodeId)]
           st2 == visitAll(conns, getNodeDependencies(conns, nodeId), st1)
       IN IF st2.cyclic THEN st2
          ELSE [st2 EXCEPT !.visiting = @ \ {nodeId}, !.visited = @ \cup {nodeId}]

\* buildExecutionOrder.visit: depth-first, `visiting` the in-progress marker
\* set, `visited` the done set; st.cyclic records the thrown error.
visit(conns, nodeId, st) ==
  IF st.cyclic THEN st
  ELSE IF nodeId \in st.visiting THEN [st EXCEPT !.cyclic = TRUE]
  ELSE IF nodeId \in st.visited THEN st
  ELSE LET st1 == [st EXCEPT !.visiting = @ \cup {nodeId}]
           st2 == visitAll(conns, getNodeDependencies(conns, nodeId), st1)
       IN IF st2.cyclic THEN st2
          ELSE [st2 EXCEPT !.visiting = @ \ {nodeId},
                           !.visited = @ \cup {nodeId},
                           !.order = Append(@, nodeId)]

visitAll(conns, deps, st) ==
  IF deps = <<>> THEN st
  ELSE visitAll(conns, Tail(deps), visit(conns, Head(deps), st))

\* buildExecutionOrder: [cyclic, order]
buildExecutionOrder(ns, conns) ==
  LET st == visitAll(conns, ns, [visited |-> {}, visiting |-> {}, order |-> <<>>,
                                 cyclic |-> FALSE])
  IN [cyclic |-> st.cyclic, order |-> st.order]

\* the level recorded for nodeId in nodeLevels (a sequence of <<node, level>>
\* in Map insertion order), -1 when there is none
RECURSIVE levelOf(_, _)
levelOf(nodeLevels, nodeId) ==
  IF nodeLevels = <<>> THEN -1
  ELSE IF Head(nodeLevels)[1] = nodeId THEN Head(nodeLevels)[2]
       ELSE levelOf(Tail(nodeLevels), nodeId)

\* a variant of levelAbove that forgets the increment
levelSame(maxDepLevel) == maxDepLevel

\* const level = maxDepLevel + 1
levelAbove(maxDepLevel) == maxDepLevel + 1

\* buildExecutionLevels.calculateLevel, with the state threaded through:
\* st.nodeLevels, st.visited, st.cyclic (the thrown error) and st.level, the
\* value returned.
RECURSIVE calculateLevel(_, _, _)
RECURSIVE calculateDeps(_, _, _, _)
calculateLevel(conns, nodeId, st) ==
  IF st.cyclic THEN st
  ELSE IF levelOf(st.nodeLevels, nodeId) >= 0
       THEN [st EXCEPT !.level = levelOf(st.nodeLevels, nodeId)]
  ELSE IF nodeId \in st.visited THEN [st EXCEPT !.cyclic = TRUE]
  ELSE LET st1 == [st EXCEPT !.visited = @ \cup {nodeId}]
           dependencies == getNodeDependencies(conns, nodeId)
       IN IF dependencies = <<>>
          THEN [st1 EXCEPT !.nodeLevels = Append(@, <<nodeId, 0>>), !.level = 0]
          ELSE LET st2 == calculateDeps(conns, dependencies, st1, -1)
               IN IF st2.cyclic THEN st2
                  ELSE [st2 EXCEPT !.nodeLevels = Append(@, <<nodeId, levelAbove(st2.level)>>),
                                   !.level = levelAbove(st2.level),
                                   !.visited = @ \ {nodeId}]

\* Math.max(...dependencies.map(dep => calculateLevel(dep))): st.level is the
\* maximum so far
calculateDeps(conns, deps, st, maxSoFar) ==
  IF st.cyclic THEN st
  ELSE IF deps = <<>> THEN [st EXCEPT !.level = maxSoFar]
  ELSE LET st1 == calculateLevel(conns, Head(deps), st)
       IN calculateDeps(conns, Tail(deps), st1, Max(maxSoFar, st1.level))

RECURSIVE calculateAll(_, _, _)
calculateAll(conns, ns, st) ==
  IF ns = <<>> \/ st.cyclic THEN st
  ELSE calculateAll(conns, Tail(ns), calculateLevel(conns, Head(ns), st))

RECURSIVE maxLevelOf(_)
maxLevelOf(nodeLevels) ==
  IF nodeLevels = <<>> THEN -1
  ELSE Max(Head(nodeLevels)[2], maxLevelOf(Tail(nodeLevels)))

RECURSIVE nodesAtLevel(_, _)
nodesAtLevel(nodeLevels, i) ==
  IF nodeLevels = <<>> THEN <<>>
  ELSE IF Head(nodeLevels)[2] = i
       THEN <<Head(nodeLevels)[1]>> \o nodesAtLevel(Tail(nodeLevels), i)
       ELSE nodesAtLevel(Tail(nodeLevels), i)

RECURSIVE groupLevels(_, _, _)
groupLevels(nodeLevels, i, maxLevel) ==
  IF i > maxLevel THEN <<>>
  ELSE IF nodesAtLevel(nodeLevels, i) # <<>>
       THEN <<nodesAtLevel(nodeLevels, i)>> \o groupLevels(nodeLevels, i + 1, maxLevel)
       ELSE groupLevels(nodeLevels, i + 1, maxLevel)

\* buildExecutionLevels: [cyclic, levels]
buildExecutionLevels(ns, conns) ==
  LET st == calculateAll(conns, ns, [nodeLevels |-> <<>>, visited |-> {},
                                     cyclic |-> FALSE, level |-> -1])
  IN [cyclic |-> st.cyclic,
      levels |-> IF st.cyclic THEN <<>>
                 ELSE groupLevels(st.nodeLevels, 0, maxLevelOf(st.nodeLevels))]

----------------------------------------------------------------------------
(* Input gathering *)

\* the forwarding loop of gatherNodeInputs: every connection into nodeId, in
\* connection order, sets its toPort when the source's stored result is
\* successful, carries outputs and holds a value for fromPort
RECURSIVE forwardInputs(_, _, _, _)
forwardInputs(conns, results, nodeId, inputs) ==
  IF conns = <<>> THEN inputs
  ELSE LET connection == Head(conns)
           forwards ==
             /\ connection.toNode = nodeId
             /\ connection.fromNode \in DOMAIN results
             /\ results[connection.fromNode].success
             /\ results[connection.fromNode].hasOutputs
             /\ connection.fromPort \in DOMAIN results[connection.fromNode].outputs
           value == results[connection.fromNode].outputs[connection.fromPort]
       IN forwardInputs(Tail(conns), results, nodeId,
                        IF forwards THEN (connection.toPort :> value) @@ inputs
                        ELSE inputs)

\* a variant of gatherNodeInputs that lets the initial inputs override the
\* forwarded values
gatherForwardedFirst(conns, results, initial, nodeId) ==
  (IF nodeId \in DOMAIN initial THEN initial[nodeId] ELSE EmptyMap)
    @@ forwardInputs(conns, results, nodeId, EmptyMap)

\* gatherNodeInputs: the initial inputs of the node, then the forwarded values
gatherNodeInputs(conns, results, initial, nodeId) ==
  forwardInputs(conns, results, nodeId,
                IF nodeId \in DOMAIN initial THEN initial[nodeId] ELSE EmptyMap)

----------------------------------------------------------------------------
(* Node contract: BaseNode *)

\* validateInputs: "" when the inputs pass, else the id of the offending port
validateInputs(n, inputs) ==
  IF NodeCfg(n).required /\ "in" \notin DOMAIN inputs THEN "in"
  ELSE IF "in" \in DOMAIN inputs /\ NodeCfg(n).inValidated /\ ~validator(inputs["in"])
       THEN "in"
       ELSE ""

\* validateOutputs: "" when the outputs pass, else the id of the offending port
validateOutputs(n, outputs) ==
  IF "out" \in DOMAIN outputs /\ NodeCfg(n).outValidated /\ ~validator(outputs["out"])
  THEN "out"
  ELSE ""

\* what executeInternal (or fallbackFn) can do: return the output map
\* {out: "v"}, {out: "x"} or {}, or throw
Outcomes == {"v", "x", "empty", "throw"}

outputsOf(outcome) == IF outcome = "empty" THEN EmptyMap ELSE ("out" :> outcome)

NoResult == [success |-> FALSE, hasOutputs |-> FALSE, outputs |-> EmptyMap,
             errNode |-> "", errPort |-> ""]

\* {success: true, outputs, executionTime}
successResult(outputs) ==
  [success |-> TRUE, hasOutputs |-> TRUE, outputs |-> outputs,
   errNode |-> "", errPort |-> ""]

\* {success: false, error: nodeError, executionTime}, with outputs: new Map()
\* under suppressErrors
failureResult(n, errPort) ==
  [success |-> FALSE, hasOutputs |-> NodeCfg(n).suppressErrors, outputs |-> EmptyMap,
   errNode |-> n, errPort |-> errPort]

IdleTask == [pc |-> "idle", attempt |-> 0, inputs |-> EmptyMap, wake |-> 0,
             errPort |-> "", calls |-> 0, logicCalls |-> 0, fallbackCalls |-> 0,
             sinkCalls |-> 0, fallbackOut |-> "", result |-> NoResult]

\* the end of the catch block of execute: the failure sink, then the failed result
returnFailure(n, t, errPort) ==
  [t EXCEPT !.pc = "done", !.sinkCalls = @ + 1, !.errPort = errPort,
            !.result = failureResult(n, errPort)]

----------------------------------------------------------------------------
(* Circuit breaker *)

BreakerCfg == [failureThreshold |-> 2, successThreshold |-> 2,
               resetTimeout |-> 2, failureWindow |-> 3]

NewBreaker == [state |-> "CLOSED", failures |-> <<>>, successes |-> 0,
               nextAttemptTime |-> 0]

\* a variant of gateRejects that lets every call through
gateNeverRejects(b, time) == FALSE

\* a variant of gateRejects that stops rejecting one time unit early
gateRejectsShort(b, time) == b.state = "OPEN" /\ time < b.nextAttemptTime - 1

\* the gate of CircuitBreaker.execute: OPEN and the reset timeout not elapsed
gateRejects(b, time) == b.state = "OPEN" /\ time < b.nextAttemptTime

\* a variant of gatePass that leaves the breaker OPEN
gatePassStaysOpen(b, time) == b

\* CircuitBreaker.execute before fn is called, for a call that is let through
gatePass(b, time) ==
  IF b.state = "OPEN" /\ time >= b.nextAttemptTime
  THEN [b EXCEPT !.state = "HALF_OPEN"]
  ELSE b

\* a variant of onSuccess that keeps the failure history while CLOSED
onSuccessKeepsHistory(b) ==
  IF b.state = "HALF_OPEN"
  THEN IF b.successes + 1 >= BreakerCfg.successThreshold
       THEN [b EXCEPT !.state = "CLOSED", !.failures = <<>>, !.successes = 0]
       ELSE [b EXCEPT !.successes = @ + 1]
  ELSE b

\* a variant of onSuccess that closes the breaker whatever its state
onSuccessAlwaysCloses(b) ==
  [b EXCEPT !.state = "CLOSED", !.failures = <<>>, !.successes = 0]

\* CircuitBreaker.onSuccess
onSuccess(b) ==
  IF b.state = "HALF_OPEN"
  THEN IF b.successes + 1 >= BreakerCfg.successThreshold
       THEN [b EXCEPT !.state = "CLOSED", !.failures = <<>>, !.successes = 0]
       ELSE [b EXCEPT !.successes = @ + 1]
  ELSE IF b.state = "CLOSED" THEN [b EXCEPT !.failures = <<>>]
  ELSE b

\* a variant of pruneFailures that prunes nothing
keepAllFailures(failures, time) == failures

\* a variant of pruneFailures that keeps a record as old as the window
RECURSIVE pruneFailuresLoose(_, _)
pruneFailuresLoose(failures, time) ==
  IF failures = <<>> THEN <<>>
  ELSE IF time - Head(failures) <= BreakerCfg.failureWindow
       THEN <<Head(failures)>> \o pruneFailuresLoose(Tail(failures), time)
       ELSE pruneFailuresLoose(Tail(failures), time)

\* this.failures.filter(f => now - f.timestamp < this.config.failureWindow)
RECURSIVE pruneFailures(_, _)
pruneFailures(failures, time) ==
  IF failures = <<>> THEN <<>>
  ELSE IF time - Head(failures) < BreakerCfg.failureWindow
       THEN <<Head(failures)>> \o pruneFailures(Tail(failures), time)
       ELSE pruneFailures(Tail(failures), time)

\* a variant of onFailure that clears the failure history when it opens
onFailureForgets(b, time) ==
  LET kept == pruneFailures(Append(b.failures, time), time)
  IN IF b.state \in {"CLOSED", "HALF_OPEN"} /\ Len(kept) >= BreakerCfg.failureThreshold
     THEN [b EXCEPT !.failures = <<>>, !.state = "OPEN",
                    !.nextAttemptTime = time + BreakerCfg.resetTimeout,
                    !.successes = 0]
     ELSE [b EXCEPT !.failures = kept]

onFailure(b, time) ==
  LET kept == pruneFailures(Append(b.failures, time), time)
  IN IF b.state \in {"CLOSED", "HALF_OPEN"} /\ Len(kept) >= BreakerCfg.failureThreshold
     THEN [b EXCEPT !.failures = kept, !.state = "OPEN",
                    !.nextAttemptTime = time + BreakerCfg.resetTimeout,
                    !.successes = 0]
     ELSE [b EXCEPT !.failures = kept]

\* getFailureCount: the records inside the window at the time of the call
getFailureCount(b, time) == Len(pruneFailures(b.failures, time))

\* reset()
reset(b) == NewBreaker

\* open()
open(b, time) ==
  [b EXCEPT !.state = "OPEN", !.nextAttemptTime = time + BreakerCfg.resetTimeout]

----------------------------------------------------------------------------
(* Retry policy *)

\* backoffMultiplier is a fraction <<numerator, denominator>>
RetryCfg == [initialDelay |-> 1, maxDelay |-> 1, backoffMultiplier |-> <<2, 1>>,
             useJitter |-> FALSE]

RECURSIVE Pow(_, _)
Pow(base, k) == IF k = 0 THEN 1 ELSE base * Pow(base, k - 1)

\* calculateDelay without jitter, for a configuration whose delays are whole
\* milliseconds: Math.floor(Math.min(initialDelay * multiplier^attempt,
\* maxDelay)), computed on the common denominator multiplier[2]^attempt
delayWith(cfg, attempt) ==
  LET scale == Pow(cfg.backoffMultiplier[2], attempt)
      delay == cfg.initialDelay * Pow(cfg.backoffMultiplier[1], attempt)
  IN Min(delay, cfg.maxDelay * scale) \div scale

\* calculateDelay of the policy the nodes are configured with
calculateDelay(attempt) == delayWith(RetryCfg, attempt)

\* a variant of shouldRetry that retries every error
retryEverything(errName) == TRUE

\* shouldRetry with the default condition: every error but the three named
\* kinds is retried
shouldRetry(errName) ==
  errName \notin {"ValidationError", "AuthenticationError", "AuthorizationError"}

----------------------------------------------------------------------------
(* Dead letter queue *)

DlqCfg == [maxEntries |-> 2, retentionPeriod |-> 2, persistenceHandler |-> TRUE,
           onEntryAdded |-> TRUE]

RECURSIVE oldestIndex(_, _, _)

\* a variant of oldestIndex for a sort that is not stable: among the entries
\* of least timestamp it takes the one inserted last
lastOldestIndex(entries, i, best) ==
  CHOOSE j \in 1..Len(entries) :
    /\ \A k \in 1..Len(entries) : entries[j].timestamp <= entries[k].timestamp
    /\ \A k \in (j + 1)..Len(entries) : entries[j].timestamp < entries[k].timestamp

\* the position of the entry with the least timestamp, the first such in
\* insertion order (Array.prototype.sort is stable)
oldestIndex(entries, i, best) ==
  IF i > Len(entries) THEN best
  ELSE oldestIndex(entries, i + 1,
                   IF entries[i].timestamp < entries[best].timestamp THEN i ELSE best)

removeAt(s, i) == SubSeq(s, 1, i - 1) \o SubSeq(s, i + 1, Len(s))

\* removeOldest: drop entries in timestamp order until maxEntries are left
RECURSIVE removeOldest(_)
removeOldest(entries) ==
  IF Len(entries) <= DlqCfg.maxEntries THEN entries
  ELSE removeOldest(removeAt(entries, oldestIndex(entries, 1, 1)))

\* a variant of addEntry that stores the entry and leaves the eviction for
\* later
storeOnly(entries, seq, n, time) ==
  Append(entries, [id |-> seq + 1, nodeId |-> n, timestamp |-> time, processed |-> FALSE])

\* DeadLetterQueue.add up to its await of persistenceHandler.save
addEntry(entries, seq, n, time) ==
  LET entry == [id |-> seq + 1, nodeId |-> n, timestamp |-> time, processed |-> FALSE]
      stored == Append(entries, entry)
  IN IF Len(stored) > DlqCfg.maxEntries THEN removeOldest(stored) ELSE stored

\* markProcessed(id)
markProcessed(entries, id) ==
  [i \in 1..Len(entries) |->
     IF entries[i].id = id THEN [entries[i] EXCEPT !.processed = TRUE] ELSE entries[i]]

\* remove(id): this.entries.delete(id)
RECURSIVE remove(_, _)
remove(entries, id) ==
  IF entries = <<>> THEN <<>>
  ELSE IF Head(entries).id = id THEN remove(Tail(entries), id)
       ELSE <<Head(entries)>> \o remove(Tail(entries), id)

\* clear()
clear(entries) == <<>>

\* cleanup: the sweep deletes the entries older than the retention period
RECURSIVE cleanup(_, _)
cleanup(entries, time) ==
  IF entries = <<>> THEN <<>>
  ELSE IF Head(entries).timestamp < time - DlqCfg.retentionPeriod
       THEN cleanup(Tail(entries), time)
       ELSE <<Head(entries)>> \o cleanup(Tail(entries), time)

\* this.entries.set(entry.id, entry): an entry of that id is replaced where
\* it stands, a new id goes to the end
setEntry(entries, entry) ==
  IF \E i \in 1..Len(entries) : entries[i].id = entry.id
  THEN [i \in 1..Len(entries) |->
          IF entries[i].id = entry.id THEN entry ELSE entries[i]]
  ELSE Append(entries, entry)

\* load, once persistenceHandler.load has resolved with `loaded`
RECURSIVE load(_, _)
load(entries, loaded) ==
  IF loaded = <<>> THEN entries
  ELSE load(setEntry(entries, Head(loaded)), Tail(loaded))

----------------------------------------------------------------------------
(* Resilience wrapper: ErrorHandlingNode.execute and, with                 *)
(* NodeCfg(n).resilient = FALSE, BaseNode.execute.  Each operator is the   *)
(* code that runs from one point of the call up to its next await; it      *)
(* yields the task record, the breaker and the dead letter queue it leaves.*)

Eff(t, b, entries, seq) == [t |-> t, b |-> b, dlq |-> entries, seq |-> seq]

\* a variant of catchBlock that never records the failure
catchUnrecorded(n, t, b, entries, seq, time, errPort) ==
  Eff(returnFailure(n, t, errPort), b, entries, seq)

\* the catch block of execute: a resilient node with enableDLQ calls
\* DeadLetterQueue.add and waits for the save hook; otherwise the failure
\* sink is called and the failed result returned
catchBlock(n, t, b, entries, seq, time, errPort) ==
  IF NodeCfg(n).resilient /\ NodeCfg(n).enableDLQ
  THEN Eff([t EXCEPT !.pc = "save", !.errPort = errPort], b,
           addEntry(entries, seq, n, time), seq + 1)
  ELSE Eff(returnFailure(n, t, errPort), b, entries, seq)

\* the end of the try block of execute: validateOutputs, then the successful
\* result; a refused output is thrown into the catch block
tryEnd(n, t, b, entries, seq, time, outputs) ==
  IF validateOutputs(n, outputs) = ""
  THEN Eff([t EXCEPT !.pc = "done", !.result = successResult(outputs)], b, entries, seq)
  ELSE catchBlock(n, t, b, entries, seq, time, validateOutputs(n, outputs))

\* the catch of executeWithErrorHandling: the fallback when there is one,
\* else the error goes on to the catch block of execute
exhausted(n, t, b, entries, seq, time) ==
  IF NodeCfg(n).fallbackFn
  THEN Eff([t EXCEPT !.pc = "fallback", !.fallbackCalls = @ + 1], b, entries, seq)
  ELSE catchBlock(n, t, b, entries, seq, time, "")

\* a variant of attemptFailed that never retries
fallbackAtOnce(n, t, b, entries, seq, time, errName) ==
  exhausted(n, t, b, entries, seq, time)

\* the catch of RetryPolicy.execute (without a retryPolicy the error of
\* executeFn reaches executeWithErrorHandling directly): give up, or sleep
attemptFailed(n, t, b, entries, seq, time, errName) ==
  IF \/ NodeCfg(n).maxAttempts = 0
     \/ ~shouldRetry(errName)
     \/ t.attempt = NodeCfg(n).maxAttempts - 1
  THEN exhausted(n, t, b, entries, seq, time)
  ELSE Eff([t EXCEPT !.pc = "sleep", !.wake = time + calculateDelay(t.attempt)],
           b, entries, seq)

\* executeFn: the breaker's gate, then executeInternal is started
startAttempt(n, t, b, entries, seq, time) ==
  IF NodeCfg(n).circuitBreaker /\ gateRejects(b, time)
  THEN attemptFailed(n, [t EXCEPT !.calls = @ + 1], b, entries, seq, time, "Error")
  ELSE Eff([t EXCEPT !.pc = "logic", !.calls = @ + 1, !.logicCalls = @ + 1],
           IF NodeCfg(n).circuitBreaker THEN gatePass(b, time) ELSE b,
           entries, seq)

\* execute up to its first await: validateInputs, then the first attempt
beginExecute(n, t, b, entries, seq, time) ==
  IF validateInputs(n, t.inputs) # ""
  THEN catchBlock(n, t, b, entries, seq, time, validateInputs(n, t.inputs))
  ELSE IF NodeCfg(n).resilient
       THEN startAttempt(n, t, b, entries, seq, time)
       ELSE Eff([t EXCEPT !.pc = "logic", !.logicCalls = @ + 1], b, entries, seq)

\* executeInternal has settled: the breaker records the outcome, then the
\* outputs are returned or the error is thrown to the retry policy
afterLogic(n, t, b, entries, seq, time, outcome) ==
  LET b1 == IF ~NodeCfg(n).circuitBreaker THEN b
            ELSE IF outcome = "throw" THEN onFailure(b, time) ELSE onSuccess(b)
  IN IF outcome # "throw" THEN tryEnd(n, t, b1, entries, seq, time, outputsOf(outcome))
     ELSE IF NodeCfg(n).resilient
          THEN attemptFailed(n, t, b1, entries, seq, time, "Error")
          ELSE catchBlock(n, t, b1, entries, seq, time, "")

\* the retry policy's delay is over: the next attempt
afterSleep(n, t, b, entries, seq, time) ==
  startAttempt(n, [t EXCEPT !.attempt = @ + 1], b, entries, seq, time)

\* fallbackFn has settled
afterFallback(n, t, b, entries, seq, time, outcome) ==
  LET t1 == [t EXCEPT !.fallbackOut = outcome]
  IN IF outcome = "throw" THEN catchBlock(n, t1, b, entries, seq, time, "")
     ELSE tryEnd(n, t1, b, entries, seq, time, outputsOf(outcome))

\* what the caller-supplied hooks of DeadLetterQueue.add can do
HookOutcomes == {"ok", "saveThrows", "observerThrows"}

\* persistenceHandler.save has settled: add goes on to onEntryAdded and
\* returns, and execute goes on to the failure sink; a hook that throws
\* makes add, and with it execute, reject
afterSave(n, t, b, entries, seq, hook) ==
  IF hook = "ok" THEN Eff(returnFailure(n, t, t.errPort), b, entries, seq)
  ELSE Eff([t EXCEPT !.pc = "raised"], b, entries, seq)

----------------------------------------------------------------------------
(* Executor *)

Event(type, nodeId) == [type |-> type, nodeId |-> nodeId]

\* the EXECUTION_STARTED events of a level, in launch order
RECURSIVE startedEvents(_)
startedEvents(level) ==
  IF level = <<>> THEN <<>>
  ELSE <<Event("EXECUTION_STARTED", Head(level))>> \o startedEvents(Tail(level))

\* executeNode up to its call of node.execute, for every node of `level`:
\* the node joins executingNodes, EXECUTION_STARTED is emitted and the inputs
\* are gathered from the results stored so far
launch(level, results) ==
  /\ executingNodes' = (IF run.state = "idle" THEN {} ELSE executingNodes)
                         \cup SeqToSet(level)
  /\ events' = events \o startedEvents(level)
  /\ task' = [n \in DOMAIN task |->
                IF n \in SeqToSet(level)
                THEN [IdleTask EXCEPT !.pc = "called",
                        !.inputs = gatherNodeInputs(connections, results, initialInputs, n)]
                ELSE task[n]]

\* this.executionResults.clear()
clearedResults == EmptyMap

\* a variant of singletons that starts every node of the order at once
allAtOnce(order) == IF order = <<>> THEN <<>> ELSE <<order>>

\* the plan of a sequential run: one level per node of the order
singletons(order) == [i \in 1..Len(order) |-> <<order[i]>>]

\* execute / executeParallel up to their first await: the results and the
\* executing set are cleared, the plan is built, and either the cycle error
\* is caught (EXECUTION_FAILED is emitted and the error rethrown) or the
\* first level is launched
startRun(mode, cyclic, plan) ==
  /\ run.state = "idle"
  /\ executionResults' = clearedResults
  /\ IF cyclic
     THEN /\ run' = [mode |-> mode, state |-> "raised", plan |-> <<>>, idx |-> 0]
          /\ executingNodes' = {}
          /\ events' = Append(events, Event("EXECUTION_FAILED", ""))
          /\ UNCHANGED task
     ELSE IF plan = <<>>
          THEN /\ run' = [mode |-> mode, state |-> "returned", plan |-> plan, idx |-> 0]
               /\ executingNodes' = {}
               /\ UNCHANGED <<events, task>>
          ELSE /\ run' = [mode |-> mode, state |-> "running", plan |-> plan, idx |-> 1]
               /\ launch(plan[1], executionResults')
  /\ UNCHANGED <<nodes, connections, initialInputs, breaker, dlq, dlqSeq, now>>
  /\ UNCHANGED unitVars

execute ==
  LET built == buildExecutionOrder(nodes, connections)
  IN startRun("seq", built.cyclic, singletons(built.order))

executeParallel ==
  LET built == buildExecutionLevels(nodes, connections)
  IN startRun("par", built.cyclic, built.levels)

\* a variant of resumeRun that goes on as soon as one node of the level has
\* settled
resumeRunAfterAny ==
  /\ run.state = "running"
  /\ \E n \in SeqToSet(run.plan[run.idx]) : task[n].pc = "done"
  /\ IF run.idx < Len(run.plan)
     THEN /\ run' = [run EXCEPT !.idx = @ + 1]
          /\ launch(run.plan[run.idx + 1], executionResults)
     ELSE /\ run' = [run EXCEPT !.state = "returned"]
          /\ UNCHANGED <<executingNodes, events, task>>
  /\ UNCHANGED <<nodes, connections, initialInputs, executionResults, breaker,
                 dlq, dlqSeq, now>>
  /\ UNCHANGED unitVars

\* the awaited executeNode (sequential) or Promise.all (parallel) has
\* resolved: the next level is launched, or the run returns its results
resumeRun ==
  /\ run.state = "running"
  /\ \A n \in SeqToSet(run.plan[run.idx]) : task[n].pc = "done"
  /\ IF run.idx < Len(run.plan)
     THEN /\ run' = [run EXCEPT !.idx = @ + 1]
          /\ launch(run.plan[run.idx + 1], executionResults)
     ELSE /\ run' = [run EXCEPT !.state = "returned"]
          /\ UNCHANGED <<executingNodes, events, task>>
  /\ UNCHANGED <<nodes, connections, initialInputs, executionResults, breaker,
                 dlq, dlqSeq, now>>
  /\ UNCHANGED unitVars

\* the awaited executeNode or Promise.all has rejected: the catch of
\* execute/executeParallel emits EXECUTION_FAILED and rethrows
abortRun ==
  /\ run.state = "running"
  /\ \E n \in SeqToSet(run.plan[run.idx]) : task[n].pc = "raised"
  /\ run' = [run EXCEPT !.state = "raised"]
  /\ events' = Append(events, Event("EXECUTION_FAILED", ""))
  /\ UNCHANGED <<nodes, connections, initialInputs, executingNodes, executionResults,
                 task, breaker, dlq, dlqSeq, now>>
  /\ UNCHANGED unitVars

\* persistenceHandler.save(entry) of DeadLetterQueue.add: where the handler
\* is modelled (store.persisted), it is handed the entry that effect e has
\* just added
handed(e) ==
  IF store = NoCall \/ e.seq = dlqSeq THEN store
  ELSE [store EXCEPT
          !.persisted = Append(@, CHOOSE entry \in SeqToSet(e.dlq) : entry.id = e.seq)]

\* a step of node n's executeNode call that leaves effect e: when execute
\* has returned, the result is stored and the terminal event emitted; the
\* finally block removes n from executingNodes also when execute has rejected
nodeStep(n, e) ==
  /\ task' = [task EXCEPT ![n] = e.t]
  /\ breaker' = [breaker EXCEPT ![n] = e.b]
  /\ dlq' = e.dlq
  /\ dlqSeq' = e.seq
  /\ executionResults' = IF e.t.pc = "done" THEN (n :> e.t.result) @@ executionResults
                         ELSE executionResults
  /\ events' = IF e.t.pc # "done" THEN events
               ELSE IF e.t.result.success
                    THEN Append(events, Event("EXECUTION_COMPLETED", n))
                    ELSE Append(events, Event("EXECUTION_FAILED", n))
  /\ executingNodes' = IF e.t.pc \in {"done", "raised"} THEN executingNodes \ {n}
                       ELSE executingNodes
  /\ UNCHANGED <<nodes, connections, initialInputs, run>>
  /\ UNCHANGED <<retry, cb, graph>>
  /\ store' = handed(e)

nodeBegin(n) ==
  /\ task[n].pc = "called"
  /\ nodeStep(n, beginExecute(n, task[n], breaker[n], dlq, dlqSeq, now))
  /\ UNCHANGED now

logicSettle(n) ==
  /\ task[n].pc = "logic"
  /\ \E outcome \in Outcomes :
       nodeStep(n, afterLogic(n, task[n], breaker[n], dlq, dlqSeq, now, outcome))
  /\ UNCHANGED now

\* the timer of RetryPolicy.delay fires: no earlier than the wake time
retryWake(n) ==
  /\ task[n].pc = "sleep"
  /\ now' = Max(now, task[n].wake)
  /\ nodeStep(n, afterSleep(n, task[n], breaker[n], dlq, dlqSeq, now'))

fallbackSettle(n) ==
  /\ task[n].pc = "fallback"
  /\ \E outcome \in Outcomes :
       nodeStep(n, afterFallback(n, task[n], breaker[n], dlq, dlqSeq, now, outcome))
  /\ UNCHANGED now

saveSettle(n) ==
  /\ task[n].pc = "save"
  /\ \E hook \in HookOutcomes :
       nodeStep(n, afterSave(n, task[n], breaker[n], dlq, dlqSeq, hook))
  /\ UNCHANGED now

InFlight == {"called", "logic", "sleep", "fallback", "save"}

\* time passes while some node is in flight
tick ==
  /\ now < MaxTime
  /\ \E n \in DOMAIN task : task[n].pc \in InFlight
  /\ now' = now + 1
  /\ UNCHANGED <<nodes, connections, initialInputs, executingNodes, executionResults,
                 events, run, task, breaker, dlq, dlqSeq>>
  /\ UNCHANGED unitVars

----------------------------------------------------------------------------
(* The graphs and inputs of a run *)

Conn(from, to) == [id |-> <<from, to>>, fromNode |-> from, fromPort |-> "out",
                   toNode |-> to, toPort |-> "in"]

CandidateConns == {Conn(from, to) : from \in NodeIds, to \in NodeIds}

\* the connection maps of at most MaxConns connections, in every insertion order
ConnSeqs ==
  UNION {{s \in [1..k -> CandidateConns] : \A i, j \in 1..k : i # j => s[i] # s[j]} :
         k \in 0..MaxConns}

\* the caller gives every node no input, the value "v" or the value "x"
InitialInputChoices ==
  {EmptyMap} \cup {[n \in NodeIds |-> ("in" :> value)] : value \in Values}

\* what a previous run has left in executionResults
StaleResults == [n \in NodeIds |-> successResult(("out" :> "x"))]

Init ==
  /\ nodes = <<"A", "B", "C">>
  /\ connections \in ConnSeqs
  /\ initialInputs \in InitialInputChoices
  /\ executingNodes = {}
  /\ executionResults \in {EmptyMap, StaleResults}
  /\ events = <<>>
  /\ run = [mode |-> "none", state |-> "idle", plan |-> <<>>, idx |-> 0]
  /\ task = [n \in NodeIds |-> IdleTask]
  /\ breaker = [n \in NodeIds |-> NewBreaker]
  /\ dlq = <<>>
  /\ dlqSeq = 0
  /\ now = 0
  /\ retry = NoCall
  /\ cb = NoCall
  /\ store = NoCall
  /\ graph = NoCall

Next ==
  \/ execute
  \/ executeParallel
  \/ resumeRun
  \/ abortRun
  \/ \E n \in NodeIds : nodeBegin(n)
  \/ \E n \in NodeIds : logicSettle(n)
  \/ \E n \in NodeIds : retryWake(n)
  \/ \E n \in NodeIds : fallbackSettle(n)
  \/ \E n \in NodeIds : saveSettle(n)
  \/ tick

Spec == Init /\ [][Next]_vars

\* the event loop runs every continuation that is ready: a launched node
\* begins, its logic, its fallback and the save hook settle, a retry timer
\* fires, and the run resumes when what it awaits has settled
Fairness ==
  /\ WF_vars(resumeRun)
  /\ WF_vars(abortRun)
  /\ \A n \in NodeIds :
       /\ WF_vars(nodeBegin(n))
       /\ WF_vars(logicSettle(n))
       /\ WF_vars(retryWake(n))
       /\ WF_vars(fallbackSettle(n))
       /\ WF_vars(saveSettle(n))

SpecFair == Spec /\ Fairness

----------------------------------------------------------------------------
(* Runs of an executor that holds resilient nodes with a fallback *)

\* the executors: one of the nodes, or both, the second fed by the first or not
WrapGraphs ==
  {[nodes |-> <<n>>, connections |-> <<>>] : n \in WrapIds}
    \cup {g \in UNION {{[nodes |-> <<n, m>>, connections |-> conns] :
                            conns \in {<<>>, <<Conn(n, m)>>}} :
                          n \in WrapIds, m \in WrapIds} :
            g.nodes[1] # g.nodes[2]}

InitWrap ==
  /\ \E g \in WrapGraphs : nodes = g.nodes /\ connections = g.connections
  /\ initialInputs \in {EmptyMap} \cup {[n \in WrapIds |-> ("in" :> value)] : value \in Values}
  /\ executingNodes = {}
  /\ executionResults = EmptyMap
  /\ events = <<>>
  /\ run = [mode |-> "none", state |-> "idle", plan |-> <<>>, idx |-> 0]
  /\ task = [n \in WrapIds |-> IdleTask]
  /\ breaker = [n \in WrapIds |-> NewBreaker]
  /\ dlq = <<>>
  /\ dlqSeq = 0
  /\ now = 0
  /\ retry = NoCall
  /\ cb = NoCall
  /\ store = NoCall
  /\ graph = NoCall

NextWrap ==
  \/ execute
  \/ executeParallel
  \/ resumeRun
  \/ abortRun
  \/ \E n \in WrapIds : nodeBegin(n)
  \/ \E n \in WrapIds : logicSettle(n)
  \/ \E n \in WrapIds : retryWake(n)
  \/ \E n \in WrapIds : fallbackSettle(n)
  \/ \E n \in WrapIds : saveSettle(n)
  \/ tick

SpecWrap == InitWrap /\ [][NextWrap]_vars

----------------------------------------------------------------------------
(* The same runs with the process-wide dead letter queue (dlq) also used   *)
(* from outside the run: markProcessed, remove, clear, the background      *)
(* sweep and load.  store.persisted is what the persistence handler has    *)
(* been handed by save, which load gives back.                             *)

queueOp(entries) ==
  /\ dlq' = entries
  /\ UNCHANGED <<nodes, connections, initialInputs, executingNodes, executionResults,
                 events, run, task, breaker, dlqSeq, now>>
  /\ UNCHANGED unitVars

queueMarkProcessed ==
  \E i \in 1..Len(dlq) : ~dlq[i].processed /\ queueOp(markProcessed(dlq, dlq[i].id))

queueRemove == \E i \in 1..Len(dlq) : queueOp(remove(dlq, dlq[i].id))

queueClear == dlq # <<>> /\ queueOp(clear(dlq))

queueCleanup == cleanup(dlq, now) # dlq /\ queueOp(cleanup(dlq, now))

queueLoad == load(dlq, store.persisted) # dlq /\ queueOp(load(dlq, store.persisted))

\* the executors: node D alone, or D and E with no connection
QueueGraphs == {g \in WrapGraphs : g.connections = <<>> /\ g.nodes[1] = "D"}

InitQueue ==
  /\ \E g \in QueueGraphs : nodes = g.nodes /\ connections = g.connections
  /\ initialInputs \in {EmptyMap} \cup {[n \in WrapIds |-> ("in" :> value)] : value \in Values}
  /\ executingNodes = {}
  /\ executionResults = EmptyMap
  /\ events = <<>>
  /\ run = [mode |-> "none", state |-> "idle", plan |-> <<>>, idx |-> 0]
  /\ task = [n \in WrapIds |-> IdleTask]
  /\ breaker = [n \in WrapIds |-> NewBreaker]
  /\ dlq = <<>>
  /\ dlqSeq = 0
  /\ now = 0
  /\ retry = NoCall
  /\ cb = NoCall
  /\ store = [persisted |-> <<>>]
  /\ graph = NoCall

NextQueue ==
  \/ NextWrap
  \/ queueMarkProcessed
  \/ queueRemove
  \/ queueClear
  \/ queueCleanup
  \/ queueLoad

SpecQueue == InitQueue /\ [][NextQueue]_vars

----------------------------------------------------------------------------
(* Two runs of one executor whose nodes are plain BaseNodes with            *)
(* deterministic logic: graph.logic is the executeInternal of each node (a  *)
(* function of its inputs), graph.first the mode and the returned result    *)
(* map of the first run, <<>> until it has returned.                        *)

LogicKinds == {"echo", "swap", "throw"}

\* what executeInternal does with the inputs: return its input (nothing
\* without one), return the other value ("v" without an input), or throw
LogicOutcome(kind, inputs) ==
  CASE kind = "echo" -> IF "in" \in DOMAIN inputs THEN inputs["in"] ELSE "empty"
    [] kind = "swap" -> IF "in" \in DOMAIN inputs /\ inputs["in"] = "v" THEN "x" ELSE "v"
    [] OTHER -> "throw"

\* the connection maps of at most MaxWires connections between different
\* plain nodes, in every insertion order
WireSeqs ==
  LET candidates == {c \in {Conn(from, to) : from \in PlainIds, to \in PlainIds} :
                       c.fromNode # c.toNode}
  IN UNION {{s \in [1..k -> candidates] : \A i, j \in 1..k : i # j => s[i] # s[j]} :
            k \in 0..MaxWires}

InitBoth ==
  /\ nodes \in {<<"P", "Q", "R">>, <<"R", "Q", "P">>}
  /\ connections \in WireSeqs
  /\ initialInputs \in {EmptyMap} \cup {[n \in PlainIds |-> ("in" :> value)] : value \in Values}
  /\ executingNodes = {}
  /\ executionResults = EmptyMap
  /\ events = <<>>
  /\ run = [mode |-> "none", state |-> "idle", plan |-> <<>>, idx |-> 0]
  /\ task = [n \in PlainIds |-> IdleTask]
  /\ breaker = [n \in PlainIds |-> NewBreaker]
  /\ dlq = <<>>
  /\ dlqSeq = 0
  /\ now = 0
  /\ retry = NoCall
  /\ cb = NoCall
  /\ store = NoCall
  /\ graph \in [logic : [PlainIds -> LogicKinds], first : {<<>>}]

\* executeInternal of node n has settled
logicReturns(n) ==
  /\ task[n].pc = "logic"
  /\ nodeStep(n, afterLogic(n, task[n], breaker[n], dlq, dlqSeq, now,
                            LogicOutcome(graph.logic[n], task[n].inputs)))
  /\ UNCHANGED now

\* the caller keeps the map the first run has returned (new
\* Map(this.executionResults)) and is ready to call again
runAgain ==
  /\ run.state = "returned"
  /\ graph.first = <<>>
  /\ graph' = [graph EXCEPT !.first = [mode |-> run.mode, results |-> executionResults]]
  /\ run' = [mode |-> "none", state |-> "idle", plan |-> <<>>, idx |-> 0]
  /\ UNCHANGED <<nodes, connections, initialInputs, executingNodes, executionResults,
                 events, task, breaker, dlq, dlqSeq, now>>
  /\ UNCHANGED <<retry, cb, store>>

NextBoth ==
  \/ execute
  \/ executeParallel
  \/ resumeRun
  \/ \E n \in PlainIds : nodeBegin(n)
  \/ \E n \in PlainIds : logicReturns(n)
  \/ runAgain

SpecBoth == InitBoth /\ [][NextBoth]_vars

----------------------------------------------------------------------------
(* buildExecutionLevels applied to the graphs of four nodes and at most    *)
(* MaxEdges connections, self-loops and cycles included: run.plan holds    *)
(* the levels it returns, run.state = "raised" stands for the error it     *)
(* throws.                                                                 *)

LevelIds == {"A", "B", "C", "D"}

LevelConnSeqs ==
  LET candidates == {Conn(from, to) : from \in LevelIds, to \in LevelIds}
  IN UNION {{s \in [1..k -> candidates] : \A i, j \in 1..k : i # j => s[i] # s[j]} :
            k \in 0..MaxEdges}

InitLevels ==
  /\ nodes \in {<<"A", "B", "C", "D">>, <<"D", "C", "B", "A">>}
  /\ connections \in LevelConnSeqs
  /\ initialInputs = EmptyMap
  /\ executingNodes = {}
  /\ executionResults = EmptyMap
  /\ events = <<>>
  /\ run = [mode |-> "none", state |-> "idle", plan |-> <<>>, idx |-> 0]
  /\ task = [n \in LevelIds |-> IdleTask]
  /\ breaker = [n \in LevelIds |-> NewBreaker]
  /\ dlq = <<>>
  /\ dlqSeq = 0
  /\ now = 0
  /\ retry = NoCall
  /\ cb = NoCall
  /\ store = NoCall
  /\ graph = NoCall

\* const levels = this.buildExecutionLevels()
planLevels ==
  /\ run.state = "idle"
  /\ LET built == buildExecutionLevels(nodes, connections)
     IN run' = [mode |-> "par", state |-> IF built.cyclic THEN "raised" ELSE "planned",
                plan |-> built.levels, idx |-> 0]
  /\ UNCHANGED <<nodes, connections, initialInputs, executingNodes, executionResults,
                 events, task, breaker, dlq, dlqSeq, now>>
  /\ UNCHANGED unitVars

NextLevels == planLevels

SpecLevels == InitLevels /\ [][NextLevels]_vars

----------------------------------------------------------------------------
(* buildExecutionOrder and buildExecutionLevels applied to the graphs of    *)
(* four nodes and at most MaxLinks connections in every insertion order of  *)
(* the connections: between any two different nodes, and a second           *)
(* connection A->B and D->C into another port.  The two algorithms do not   *)
(* look at the names, so the two insertion orders of the nodes stand for    *)
(* all of them.                                                             *)

Link2(from, to) == [id |-> <<from, to, "2">>, fromNode |-> from, fromPort |-> "out",
                    toNode |-> to, toPort |-> "in2"]

OrderLinks ==
  {c \in {Conn(from, to) : from \in LevelIds, to \in LevelIds} : c.fromNode # c.toNode}
    \cup {Link2("A", "B"), Link2("D", "C")}

OrderLinkSeqs ==
  UNION {{s \in [1..k -> OrderLinks] : \A i, j \in 1..k : i # j => s[i] # s[j]} :
         k \in 0..MaxLinks}

InitOrder ==
  /\ nodes \in {<<"A", "B", "C", "D">>, <<"D", "C", "B", "A">>}
  /\ connections \in OrderLinkSeqs
  /\ initialInputs = EmptyMap
  /\ executingNodes = {}
  /\ executionResults = EmptyMap
  /\ events = <<>>
  /\ run = [mode |-> "none", state |-> "idle", plan |-> <<>>, idx |-> 0]
  /\ task = [n \in LevelIds |-> IdleTask]
  /\ breaker = [n \in LevelIds |-> NewBreaker]
  /\ dlq = <<>>
  /\ dlqSeq = 0
  /\ now = 0
  /\ retry = NoCall
  /\ cb = NoCall
  /\ store = NoCall
  /\ graph = NoCall

\* const executionOrder = this.buildExecutionOrder()
planOrder ==
  /\ run.state = "idle"
  /\ LET built == buildExecutionOrder(nodes, connections)
     IN run' = [mode |-> "seq", state |-> IF built.cyclic THEN "raised" ELSE "planned",
                plan |-> IF built.cyclic THEN <<>> ELSE singletons(built.order),
                idx |-> 0]
  /\ UNCHANGED <<nodes, connections, initialInputs, executingNodes, executionResults,
                 events, task, breaker, dlq, dlqSeq, now>>
  /\ UNCHANGED unitVars

NextOrder ==
  \/ planOrder
  \/ planLevels

SpecOrder == InitOrder /\ [][NextOrder]_vars

----------------------------------------------------------------------------
(* RetryPolicy.execute(fn) called on its own *)

\* no executor is at work
NoExecutor ==
  /\ nodes = <<>>
  /\ connections = <<>>
  /\ initialInputs = EmptyMap
  /\ executingNodes = {}
  /\ executionResults = EmptyMap
  /\ events = <<>>
  /\ run = [mode |-> "none", state |-> "idle", plan |-> <<>>, idx |-> 0]
  /\ task = [n \in NodeIds |-> IdleTask]
  /\ breaker = [n \in NodeIds |-> NewBreaker]
  /\ dlq = <<>>
  /\ dlqSeq = 0

\* error.name of what fn can throw
ErrNames == {"Error", "ValidationError", "AuthenticationError", "AuthorizationError"}

\* a variant of loopGoesOn that is off by one
loopGoesOnLate(attempt, maxAttempts) == attempt <= maxAttempts

\* for (let attempt = 0; attempt < this.config.maxAttempts; attempt++)
loopGoesOn(attempt, maxAttempts) == attempt < maxAttempts

\* attempt === this.config.maxAttempts - 1
lastAttempt(attempt, maxAttempts) == attempt = maxAttempts - 1

\* a policy of the given maxAttempts, with a custom retryCondition or the
\* default one, on which execute has not been called
NewRetry(maxAttempts, custom) ==
  [maxAttempts |-> maxAttempts, custom |-> custom, pc |-> "idle", attempt |-> 0,
   calls |-> 0, hookCalls |-> 0, sleeps |-> 0, wake |-> 0, outcomes |-> <<>>,
   verdict |-> TRUE, result |-> "", wrapped |-> FALSE, cited |-> 0]

\* the head of the loop: fn is called, or the loop is over and lastError
\* is thrown as it is
retryLoop(r) ==
  IF loopGoesOn(r.attempt, r.maxAttempts)
  THEN [r EXCEPT !.pc = "fn", !.calls = @ + 1]
  ELSE [r EXCEPT !.pc = "raised", !.wrapped = FALSE]

\* the call of execute, up to its first await
retryExecute ==
  /\ retry.pc = "idle"
  /\ retry' = retryLoop(retry)
  /\ UNCHANGED <<execVars, now, cb, store, graph>>

\* fn has resolved: its value is returned
retryFnResolves ==
  /\ retry.pc = "fn"
  /\ \E value \in Values :
       retry' = [retry EXCEPT !.pc = "returned", !.result = value,
                              !.outcomes = Append(@, value)]
  /\ UNCHANGED <<execVars, now, cb, store, graph>>

\* fn has rejected: the catch block asks shouldRetry, then either throws
\* the wrapping error or calls onRetry and starts the delay
retryFnRejects ==
  /\ retry.pc = "fn"
  /\ \E errName \in ErrNames, verdict \in BOOLEAN :
       /\ ~retry.custom => verdict = shouldRetry(errName)
       /\ LET r == [retry EXCEPT !.outcomes = Append(@, errName), !.verdict = verdict]
          IN retry' =
               IF ~verdict \/ lastAttempt(r.attempt, r.maxAttempts)
               THEN [r EXCEPT !.pc = "raised", !.wrapped = TRUE, !.cited = r.attempt + 1]
               ELSE [r EXCEPT !.pc = "sleep", !.hookCalls = @ + 1, !.sleeps = @ + 1,
                              !.wake = now + calculateDelay(r.attempt)]
  /\ UNCHANGED <<execVars, now, cb, store, graph>>

\* the timer of delay fires, no earlier than the wake time: the next round
\* of the loop
retryTimer ==
  /\ retry.pc = "sleep"
  /\ now' = Max(now, retry.wake)
  /\ retry' = retryLoop([retry EXCEPT !.attempt = @ + 1])
  /\ UNCHANGED <<execVars, cb, store, graph>>

\* time passes while the call is pending
retryTick ==
  /\ retry.pc \in {"fn", "sleep"}
  /\ now < MaxTime
  /\ now' = now + 1
  /\ UNCHANGED <<execVars, retry, cb, store, graph>>

InitRetry ==
  /\ NoExecutor
  /\ now = 0
  /\ retry \in {NewRetry(maxAttempts, custom) :
                  maxAttempts \in 0..MaxAttempts, custom \in BOOLEAN}
  /\ cb = NoCall
  /\ store = NoCall
  /\ graph = NoCall

NextRetry ==
  \/ retryExecute
  \/ retryFnResolves
  \/ retryFnRejects
  \/ retryTimer
  \/ retryTick

SpecRetry == InitRetry /\ [][NextRetry]_vars

----------------------------------------------------------------------------
(* The delays of a RetryPolicy without jitter: retry.cfg is its            *)
(* configuration, retry.delays the delays calculated for the failed        *)
(* attempts 0, 1, ... so far.                                              *)

\* multipliers that binary floating point holds exactly
Multipliers == {<<1, 1>>, <<3, 2>>, <<2, 1>>, <<1, 2>>}

DelayCfgs ==
  {[initialDelay |-> i, maxDelay |-> m, backoffMultiplier |-> b, useJitter |-> FALSE] :
     i \in {1, 2, 3, 100}, m \in {2, 5, 250, 30000}, b \in Multipliers}

InitDelay ==
  /\ NoExecutor
  /\ now = 0
  /\ retry \in {[cfg |-> cfg, delays |-> <<>>] : cfg \in DelayCfgs}
  /\ cb = NoCall
  /\ store = NoCall
  /\ graph = NoCall

\* const delay = this.calculateDelay(attempt), for the next attempt
nextDelay ==
  /\ Len(retry.delays) < MaxAttempts
  /\ retry' = [retry EXCEPT !.delays = Append(@, delayWith(retry.cfg, Len(@)))]
  /\ UNCHANGED <<execVars, now, cb, store, graph>>

NextDelay == nextDelay

SpecDelay == InitDelay /\ [][NextDelay]_vars

----------------------------------------------------------------------------
(* A CircuitBreaker used on its own: calls of execute(fn) made one after   *)
(* the other, reset() and open() at any time.  Beside the breaker (cb.b)   *)
(* the state keeps what the calls have done: the number of calls, of fn    *)
(* invocations and of rejections, what happened last, when and on which    *)
(* failures the breaker last opened, whether the pending call is the one   *)
(* that took the breaker to HALF_OPEN, and the successes seen in a row     *)
(* since the breaker entered HALF_OPEN.                                    *)

NewCb ==
  [b |-> NewBreaker, pc |-> "idle", calls |-> 0, fnCalls |-> 0, rejected |-> 0,
   last |-> "none", openedAt |-> 0, openedOn |-> <<>>, probe |-> FALSE, streak |-> 0]

\* execute(fn) up to its await of fn: the call is rejected, or fn is called
cbExecute ==
  /\ cb.pc = "idle"
  /\ cb.calls < MaxCalls
  /\ cb' = IF gateRejects(cb.b, now)
           THEN [cb EXCEPT !.calls = @ + 1, !.rejected = @ + 1, !.last = "rejected"]
           ELSE LET b1 == gatePass(cb.b, now)
                    entered == cb.b.state # "HALF_OPEN" /\ b1.state = "HALF_OPEN"
                IN [cb EXCEPT !.b = b1, !.pc = "fn", !.calls = @ + 1,
                              !.fnCalls = @ + 1, !.last = "admitted",
                              !.probe = entered,
                              !.streak = IF entered THEN 0 ELSE @]
  /\ UNCHANGED <<execVars, now, retry, store, graph>>

\* fn has resolved
cbFnResolves ==
  /\ cb.pc = "fn"
  /\ cb' = [cb EXCEPT !.b = onSuccess(cb.b), !.pc = "idle", !.last = "success",
                      !.probe = FALSE,
                      !.streak = IF cb.b.state = "HALF_OPEN" THEN @ + 1 ELSE @]
  /\ UNCHANGED <<execVars, now, retry, store, graph>>

\* fn has rejected
cbFnRejects ==
  /\ cb.pc = "fn"
  /\ LET b1 == onFailure(cb.b, now)
         opens == cb.b.state # "OPEN" /\ b1.state = "OPEN"
     IN cb' = [cb EXCEPT !.b = b1, !.pc = "idle", !.last = "failure",
                         !.probe = FALSE, !.streak = 0,
                         !.openedAt = IF opens THEN now ELSE @,
                         !.openedOn = IF opens
                                      THEN pruneFailures(Append(cb.b.failures, now), now)
                                      ELSE @]
  /\ UNCHANGED <<execVars, now, retry, store, graph>>

cbReset ==
  /\ cb' = [cb EXCEPT !.b = reset(cb.b), !.last = "reset", !.openedOn = <<>>,
                      !.streak = 0]
  /\ UNCHANGED <<execVars, now, retry, store, graph>>

cbOpen ==
  /\ cb' = [cb EXCEPT !.b = open(cb.b, now), !.last = "open", !.openedAt = now,
                      !.openedOn = <<>>, !.streak = 0]
  /\ UNCHANGED <<execVars, now, retry, store, graph>>

cbTick ==
  /\ now < MaxClock
  /\ now' = now + 1
  /\ UNCHANGED <<execVars, retry, cb, store, graph>>

InitCB ==
  /\ NoExecutor
  /\ now = 0
  /\ retry = NoCall
  /\ cb = NewCb
  /\ store = NoCall
  /\ graph = NoCall

NextCB ==
  \/ cbExecute
  \/ cbFnResolves
  \/ cbFnRejects
  \/ cbReset
  \/ cbOpen
  \/ cbTick

SpecCB == InitCB /\ [][NextCB]_vars

----------------------------------------------------------------------------
(* A CircuitBreaker driven by execute(fn) calls alone, several of them in   *)
(* flight at once: a call that is let through awaits fn, which settles in   *)
(* any order.  cb.pending counts the calls awaiting fn: the probe (the call *)
(* that took the breaker to HALF_OPEN), the trials (calls made while it was *)
(* HALF_OPEN, since it last became so) and the other calls.  cb.issued      *)
(* counts the calls made while HALF_OPEN since it last became so, cb.fails  *)
(* holds the times of the failures seen since the last success.             *)

NewCalls ==
  [b |-> NewBreaker, calls |-> 0, rejected |-> 0, issued |-> 0, fails |-> <<>>,
   pending |-> [call |-> 0, probe |-> 0, trial |-> 0]]

CallKinds == {"call", "probe", "trial"}

InFlightCalls == cb.pending.call + cb.pending.probe + cb.pending.trial

\* execute(fn) up to its await of fn: the call is rejected, or fn is called
callsExecute ==
  /\ cb.calls < MaxCalls
  /\ InFlightCalls < MaxPending
  /\ cb' = IF gateRejects(cb.b, now)
           THEN [cb EXCEPT !.calls = @ + 1, !.rejected = @ + 1]
           ELSE LET b1 == gatePass(cb.b, now)
                IN IF cb.b.state = "HALF_OPEN"
                   THEN [cb EXCEPT !.calls = @ + 1, !.issued = @ + 1,
                                   !.pending.trial = @ + 1]
                   ELSE IF b1.state = "HALF_OPEN"
                   THEN [cb EXCEPT !.b = b1, !.calls = @ + 1, !.issued = 0,
                                   !.pending = [call |-> InFlightCalls, probe |-> 1,
                                                trial |-> 0]]
                   ELSE [cb EXCEPT !.calls = @ + 1, !.pending.call = @ + 1]
  /\ UNCHANGED <<execVars, now, retry, store, graph>>

\* fn has resolved for one of the calls in flight
callsFnResolves ==
  /\ \E kind \in CallKinds :
       /\ cb.pending[kind] > 0
       /\ cb' = [cb EXCEPT !.b = onSuccess(cb.b), !.pending[kind] = @ - 1,
                           !.fails = <<>>]
  /\ UNCHANGED <<execVars, now, retry, store, graph>>

\* fn has rejected for one of the calls in flight
callsFnRejects ==
  /\ \E kind \in CallKinds :
       /\ cb.pending[kind] > 0
       /\ cb' = [cb EXCEPT !.b = onFailure(cb.b, now), !.pending[kind] = @ - 1,
                           !.fails = Append(@, now)]
  /\ UNCHANGED <<execVars, now, retry, store, graph>>

InitCalls ==
  /\ NoExecutor
  /\ now = 0
  /\ retry = NoCall
  /\ cb = NewCalls
  /\ store = NoCall
  /\ graph = NoCall

NextCalls ==
  \/ callsExecute
  \/ callsFnResolves
  \/ callsFnRejects
  \/ cbTick

SpecCalls == InitCalls /\ [][NextCalls]_vars

----------------------------------------------------------------------------
(* A DeadLetterQueue used on its own, with a persistence handler that      *)
(* keeps every entry it was given to save and returns them all on load.    *)
(* store.entries is the queue, store.seq the ids handed out, store.saving  *)
(* the entry whose save is awaited (<<>> when none), store.persisted what  *)
(* the handler holds, store.addsOnly whether add is the only operation     *)
(* that has changed the membership of the queue so far, store.log the      *)
(* steps the latest add has taken, in the order it took them.              *)

NewStore == [entries |-> <<>>, seq |-> 0, saving |-> <<>>, persisted |-> <<>>,
             addsOnly |-> TRUE, log |-> <<>>]

\* the steps of add up to its await of save: lines 93-105, 108, 111-113, 117
addSteps(entries) ==
  <<"id", "store">>
    \o (IF Len(entries) + 1 > DlqCfg.maxEntries THEN <<"evict">> ELSE <<>>)
    \o (IF DlqCfg.persistenceHandler THEN <<"save">> ELSE <<>>)

StoreIds == {store.entries[i].id : i \in 1..Len(store.entries)}

\* add up to its await of persistenceHandler.save
dlqAdd ==
  /\ store.saving = <<>>
  /\ store.seq < MaxAdds
  /\ store' = [store EXCEPT
                 !.entries = addEntry(store.entries, store.seq, "B", now),
                 !.seq = @ + 1,
                 !.saving = <<[id |-> store.seq + 1, nodeId |-> "B", timestamp |-> now,
                               processed |-> FALSE]>>,
                 !.log = addSteps(store.entries)]
  /\ UNCHANGED <<execVars, now, retry, cb, graph>>

\* persistenceHandler.save has settled: the handler holds the entry and the
\* observer is called (and may throw), or save has thrown and add rejects
dlqSaved ==
  /\ store.saving # <<>>
  /\ \E hook \in HookOutcomes :
       store' = [store EXCEPT
                   !.saving = <<>>,
                   !.persisted = IF hook = "saveThrows" THEN @ ELSE @ \o store.saving,
                   !.log = IF hook # "saveThrows" /\ DlqCfg.onEntryAdded
                           THEN Append(@, "observer") ELSE @]
  /\ UNCHANGED <<execVars, now, retry, cb, graph>>

dlqLoad ==
  /\ store.persisted # <<>>
  /\ store' = [store EXCEPT !.entries = load(@, store.persisted), !.addsOnly = FALSE]
  /\ UNCHANGED <<execVars, now, retry, cb, graph>>

dlqMarkProcessed ==
  /\ \E id \in StoreIds :
       /\ \E i \in 1..Len(store.entries) :
            store.entries[i].id = id /\ ~store.entries[i].processed
       /\ store' = [store EXCEPT !.entries = markProcessed(@, id)]
  /\ UNCHANGED <<execVars, now, retry, cb, graph>>

dlqRemove ==
  /\ \E id \in StoreIds : store' = [store EXCEPT !.entries = remove(@, id),
                                          !.addsOnly = FALSE]
  /\ UNCHANGED <<execVars, now, retry, cb, graph>>

dlqClear ==
  /\ store.entries # <<>>
  /\ store' = [store EXCEPT !.entries = clear(@), !.addsOnly = FALSE]
  /\ UNCHANGED <<execVars, now, retry, cb, graph>>

\* the background sweep
dlqCleanup ==
  /\ cleanup(store.entries, now) # store.entries
  /\ store' = [store EXCEPT !.entries = cleanup(@, now), !.addsOnly = FALSE]
  /\ UNCHANGED <<execVars, now, retry, cb, graph>>

dlqTick ==
  /\ now < MaxTime
  /\ now' = now + 1
  /\ UNCHANGED <<execVars, retry, cb, store, graph>>

InitDLQ ==
  /\ NoExecutor
  /\ now = 0
  /\ retry = NoCall
  /\ cb = NoCall
  /\ store = NewStore
  /\ graph = NoCall

NextDLQ ==
  \/ dlqAdd
  \/ dlqSaved
  \/ dlqLoad
  \/ dlqMarkProcessed
  \/ dlqRemove
  \/ dlqClear
  \/ dlqCleanup
  \/ dlqTick

SpecDLQ == InitDLQ /\ [][NextDLQ]_vars

----------------------------------------------------------------------------
(* An executor under construction: addNode, removeNode, addConnection and  *)
(* removeConnection called one after the other with every argument of a    *)
(* small catalogue.  nodes holds the ids and graph.objects the INode       *)
(* object of each (its ports); graph.call is the latest call, its          *)
(* arguments and whether it has thrown.                                    *)

Port(id, name, dataType) == [id |-> id, name |-> name, dataType |-> dataType]

\* the node objects handed to addNode: one input "in" and one output "out"
\* of type string, number or any, a node without ports, a node whose input
\* and output share an id, and a node with an unnamed port
NodeShapes ==
  {[inputs |-> <<Port("in", "in", dt)>>, outputs |-> <<Port("out", "out", dt)>>] :
     dt \in {"string", "number", "any"}}
    \cup {[inputs |-> <<>>, outputs |-> <<>>],
          [inputs |-> <<Port("in", "in", "string")>>,
           outputs |-> <<Port("in", "out", "string")>>],
          [inputs |-> <<Port("in", "", "string")>>, outputs |-> <<>>]}

GraphIds == {"A", "B"}

GraphConns == {Conn(from, to) : from \in GraphIds, to \in GraphIds}

\* BaseNode.validate
validate(node) ==
  LET allPorts == node.inputs \o node.outputs
  IN /\ Len(allPorts) = Cardinality({allPorts[i].id : i \in 1..Len(allPorts)})
     /\ \A i \in 1..Len(allPorts) :
          allPorts[i].id # "" /\ allPorts[i].name # "" /\ allPorts[i].dataType # ""

\* ports.find(port => port.id === id): the ports of that id, in order
RECURSIVE find(_, _)
find(ports, id) ==
  IF ports = <<>> THEN <<>>
  ELSE IF Head(ports).id = id THEN <<Head(ports)>> ELSE find(Tail(ports), id)

\* a variant of typesMismatch that refuses a pair only when neither side
\* is "any" and the source is not a string
typesMismatchUnlessString(fromType, toType) ==
  fromType # toType /\ fromType # "any" /\ toType # "any" /\ fromType # "string"

\* the type compatibility test of validateConnection
typesMismatch(fromType, toType) ==
  fromType # toType /\ fromType # "any" /\ toType # "any"

\* validateConnection: TRUE when it throws
validateConnectionThrows(ns, objects, connection) ==
  IF connection.fromNode \notin SeqToSet(ns) THEN TRUE
  ELSE IF connection.toNode \notin SeqToSet(ns) THEN TRUE
  ELSE LET fromPort == find(objects[connection.fromNode].outputs, connection.fromPort)
           toPort == find(objects[connection.toNode].inputs, connection.toPort)
       IN IF fromPort = <<>> THEN TRUE
          ELSE IF toPort = <<>> THEN TRUE
          ELSE typesMismatch(fromPort[1].dataType, toPort[1].dataType)

\* Map.delete of the connections whose id is in ids
RECURSIVE deleteConnections(_, _)
deleteConnections(conns, ids) ==
  IF conns = <<>> THEN <<>>
  ELSE IF Head(conns).id \in ids THEN deleteConnections(Tail(conns), ids)
       ELSE <<Head(conns)>> \o deleteConnections(Tail(conns), ids)

RECURSIVE connectionsOf(_, _)

\* a variant of connectionsOf that takes the incoming connections only
RECURSIVE connectionsInto(_, _)
connectionsInto(conns, nodeId) ==
  IF conns = <<>> THEN <<>>
  ELSE IF Head(conns).toNode = nodeId
       THEN <<Head(conns)>> \o connectionsInto(Tail(conns), nodeId)
       ELSE connectionsInto(Tail(conns), nodeId)

\* a variant of connectionsOf that takes the outgoing connections only
RECURSIVE connectionsFrom(_, _)
connectionsFrom(conns, nodeId) ==
  IF conns = <<>> THEN <<>>
  ELSE IF Head(conns).fromNode = nodeId
       THEN <<Head(conns)>> \o connectionsFrom(Tail(conns), nodeId)
       ELSE connectionsFrom(Tail(conns), nodeId)

\* connectionsToRemove of removeNode, in Map order
connectionsOf(conns, nodeId) ==
  IF conns = <<>> THEN <<>>
  ELSE IF Head(conns).fromNode = nodeId \/ Head(conns).toNode = nodeId
       THEN <<Head(conns)>> \o connectionsOf(Tail(conns), nodeId)
       ELSE connectionsOf(Tail(conns), nodeId)

\* this.connections.set(connection.id, connection)
setConnection(conns, connection) ==
  IF \E i \in 1..Len(conns) : conns[i].id = connection.id
  THEN [i \in 1..Len(conns) |-> IF conns[i].id = connection.id THEN connection ELSE conns[i]]
  ELSE Append(conns, connection)

RECURSIVE deleteId(_, _)
deleteId(ns, nodeId) ==
  IF ns = <<>> THEN <<>>
  ELSE IF Head(ns) = nodeId THEN Tail(ns) ELSE <<Head(ns)>> \o deleteId(Tail(ns), nodeId)

Call(op, id, arg) == [op |-> op, id |-> id, arg |-> arg, raised |-> FALSE]

\* the call throws before it has changed or emitted anything
throws(call) ==
  /\ graph' = [graph EXCEPT !.call = [call EXCEPT !.raised = TRUE]]
  /\ UNCHANGED <<nodes, connections, events>>

graphFrame ==
  /\ UNCHANGED <<initialInputs, executingNodes, executionResults, run, task, breaker,
                 dlq, dlqSeq, now>>
  /\ UNCHANGED <<retry, cb, store>>

addNode ==
  /\ Len(events) < MaxEvents
  /\ \E id \in GraphIds, node \in NodeShapes :
       IF ~validate(node) THEN throws(Call("addNode", id, node))
       ELSE /\ nodes' = IF id \in SeqToSet(nodes) THEN nodes ELSE Append(nodes, id)
            /\ graph' = [objects |-> (id :> node) @@ graph.objects,
                         call |-> Call("addNode", id, node)]
            /\ events' = Append(events, Event("NODE_ADDED", id))
            /\ UNCHANGED connections
  /\ graphFrame

removeNode ==
  /\ Len(events) < MaxEvents
  /\ \E nodeId \in GraphIds :
       IF nodeId \notin SeqToSet(nodes) THEN throws(Call("removeNode", nodeId, <<>>))
       ELSE LET connectionsToRemove == connectionsOf(connections, nodeId)
                removed == {connectionsToRemove[i].id : i \in 1..Len(connectionsToRemove)}
            IN /\ connections' = deleteConnections(connections, removed)
               /\ nodes' = deleteId(nodes, nodeId)
               /\ graph' = [objects |-> [n \in DOMAIN graph.objects \ {nodeId} |->
                                           graph.objects[n]],
                            call |-> Call("removeNode", nodeId, <<>>)]
               /\ events' = events
                              \o [i \in 1..Len(connectionsToRemove) |->
                                    Event("CONNECTION_REMOVED", connectionsToRemove[i].id)]
                              \o <<Event("NODE_REMOVED", nodeId)>>
  /\ graphFrame

addConnection ==
  /\ Len(events) < MaxEvents
  /\ \E connection \in GraphConns :
       IF validateConnectionThrows(nodes, graph.objects, connection)
       THEN throws(Call("addConnection", connection.id, connection))
       ELSE /\ connections' = setConnection(connections, connection)
            /\ graph' = [graph EXCEPT !.call = Call("addConnection", connection.id, connection)]
            /\ events' = Append(events, Event("CONNECTION_ADDED", connection.id))
            /\ UNCHANGED nodes
  /\ graphFrame

removeConnection ==
  /\ Len(events) < MaxEvents
  /\ \E connection \in GraphConns :
       IF \A i \in 1..Len(connections) : connections[i].id # connection.id
       THEN throws(Call("removeConnection", connection.id, <<>>))
       ELSE /\ connections' = deleteConnections(connections, {connection.id})
            /\ graph' = [graph EXCEPT !.call = Call("removeConnection", connection.id, <<>>)]
            /\ events' = Append(events, Event("CONNECTION_REMOVED", connection.id))
            /\ UNCHANGED nodes
  /\ graphFrame

InitGraph ==
  /\ NoExecutor
  /\ now = 0
  /\ retry = NoCall
  /\ cb = NoCall
  /\ store = NoCall
  /\ graph = [objects |-> EmptyMap, call |-> Call("none", "", <<>>)]

NextGraph ==
  \/ addNode
  \/ removeNode
  \/ addConnection
  \/ removeConnection

SpecGraph == InitGraph /\ [][NextGraph]_vars

----------------------------------------------------------------------------
(* Vocabulary of the properties *)

Edges == {<<c.fromNode, c.toNode>> : c \in SeqToSet(connections)}

Successors(S) == {e[2] : e \in {e \in Edges : e[1] \in S}}

RECURSIVE ReachableFrom(_)
ReachableFrom(S) ==
  IF Successors(S) \subseteq S THEN S ELSE ReachableFrom(S \cup Successors(S))

\* some node reaches itself along one connection or more
HasCycle == \E n \in NodeIds : n \in ReachableFrom(Successors({n}))

\* the source nodes of the connections into n
DirectDeps(n) == {e[1] : e \in {e \in Edges : e[2] = n}}

Started(n) == \E k \in 1..Len(events) : events[k] = Event("EXECUTION_STARTED", n)

LevelNodes(i) == SeqToSet(run.plan[i])

----------------------------------------------------------------------------
(* Properties *)

\* C1: in executeParallel no node's execution starts before every node it
\* directly depends on has settled, i.e. has had its result stored.
C1_DependenciesSettledBeforeStart ==
  run.mode = "par" =>
    \A n \in NodeIds :
      (Started(n) \/ task[n].pc # "idle") =>
        \A d \in DirectDeps(n) :
          d \in DOMAIN executionResults /\ task[d].pc = "done"

\* C1 witness: two nodes that depend on one settled node are in flight together
C1_Witness ==
  /\ run.mode = "par"
  /\ \E n, m \in NodeIds :
       /\ n # m
       /\ task[n].pc = "logic" /\ task[m].pc \in InFlight
       /\ DirectDeps(n) # {} /\ DirectDeps(m) # {}

\* C2: executeParallel launches all nodes of a level together, and no node
\* of a later level emits EXECUTION_STARTED while a node of an earlier level
\* is still executing.
C2_LevelBarrier ==
  run.mode = "par" =>
    /\ \A i \in 1..Len(run.plan) :
         \/ \A n \in LevelNodes(i) : ~Started(n) /\ task[n].pc = "idle"
         \/ \A n \in LevelNodes(i) : Started(n) /\ task[n].pc # "idle"
    /\ \A i, j \in 1..Len(run.plan) :
         i < j =>
           \A m \in LevelNodes(i), n \in LevelNodes(j) :
             Started(n) => m \notin executingNodes /\ task[m].pc \notin InFlight

\* C2 witness: a level of two nodes has settled and the next level has started
C2_Witness ==
  /\ run.mode = "par"
  /\ run.idx = 2
  /\ Cardinality(LevelNodes(1)) = 2
  /\ \E n \in LevelNodes(2) : Started(n) /\ task[n].pc = "logic"

\* C3: in sequential execute at most one node is executing at any moment:
\* while a node is anywhere in its wrapped execution (attempts, backoff
\* sleeps, breaker rejections, fallback, dead-letter recording) every other
\* node either has settled or has not started.
C3_SequentialOneAtATime ==
  run.mode = "seq" =>
    /\ Cardinality(executingNodes) <= 1
    /\ \A n, m \in NodeIds :
         (n # m /\ task[n].pc \in InFlight) => task[m].pc \in {"idle", "done"}
    /\ \A n \in NodeIds : task[n].pc \in InFlight <=> n \in executingNodes

\* C3 witness: node B is recording its failure after a breaker rejection used
\* up its last attempt, one node has settled and one has not started
C3_Witness ==
  /\ run.mode = "seq"
  /\ executingNodes = {"B"}
  /\ task["B"].pc = "save"
  /\ task["B"].calls > task["B"].logicCalls
  /\ \E n, m \in NodeIds : task[n].pc = "idle" /\ task[m].pc = "done"

C5_NodeFailureNeverAbortsParallelRun ==
  (run.mode = "par" /\ ~HasCycle) =>
    /\ run.state # "raised"
    /\ run.state = "returned" => \A n \in NodeIds : task[n].pc = "done"

\* C6 (as claimed): a finished run on an acyclic graph has returned a result
\* map that holds one result for each node of the executor.
C6_CompleteResultMap ==
  (~HasCycle /\ run.state \in {"returned", "raised"}) =>
    /\ run.state = "returned"
    /\ DOMAIN executionResults = SeqToSet(nodes)

\* C7: the effective inputs of a started node are its initial inputs merged
\* with the values forwarded along the incoming connections whose source has
\* a successful result; a connection whose source failed contributes nothing.
LiveSources(n, p) ==
  {c \in SeqToSet(connections) :
     /\ c.toNode = n /\ c.toPort = p
     /\ c.fromNode \in DOMAIN executionResults
     /\ executionResults[c.fromNode].success
     /\ c.fromPort \in DOMAIN executionResults[c.fromNode].outputs}

C7_InputsFromSuccessfulSources ==
  \A n \in NodeIds :
    task[n].pc # "idle" =>
      \A p \in {"in"} :
        IF LiveSources(n, p) # {}
        THEN /\ p \in DOMAIN task[n].inputs
             /\ \E c \in LiveSources(n, p) :
                  task[n].inputs[p] = executionResults[c.fromNode].outputs[c.fromPort]
        ELSE /\ p \in DOMAIN task[n].inputs
                  <=> (n \in DOMAIN initialInputs /\ p \in DOMAIN initialInputs[n])
             /\ p \in DOMAIN task[n].inputs => task[n].inputs[p] = initialInputs[n][p]

\* C7 witness: a node has started with no input although it has an incoming
\* connection, the source of which failed
C7_Witness ==
  \E c \in SeqToSet(connections) :
    /\ task[c.toNode].pc # "idle"
    /\ c.fromNode \in DOMAIN executionResults
    /\ ~executionResults[c.fromNode].success
    /\ "in" \notin DOMAIN task[c.toNode].inputs

\* C8 (as claimed): a node's execute never raises; a failure is a returned
\* result with success=false whose error carries the node id, and the port id
\* when the inputs were refused, after one call of the failure sink.
C8_ExecuteReturnsFailure ==
  \A n \in NodeIds :
    /\ task[n].pc # "raised"
    /\ (task[n].pc = "done" /\ ~task[n].result.success) =>
         /\ task[n].result.errNode = n
         /\ task[n].sinkCalls = 1
    /\ (task[n].pc = "done" /\ validateInputs(n, task[n].inputs) # "") =>
         /\ ~task[n].result.success
         /\ task[n].result.errPort = validateInputs(n, task[n].inputs)

\* C9 (as claimed): once a resilient node is recording an unrecovered failure
\* in the dead letter queue, its execute returns a failed result to the
\* executor whatever the hooks of the queue do.
C9_RecordedFailureReturnsNormally ==
  [][\A n \in NodeIds :
       (task[n].pc = "save" /\ task'[n].pc # "save") =>
         /\ task'[n].pc = "done"
         /\ n \in DOMAIN executionResults'
         /\ ~executionResults'[n].success]_vars

C11_AtMostMaxAttemptsStopAtSuccess ==
  /\ retry.calls <= retry.maxAttempts
  /\ retry.calls = Len(retry.outcomes) + (IF retry.pc = "fn" THEN 1 ELSE 0)
  /\ \A i \in 1..Len(retry.outcomes) :
       retry.outcomes[i] \in Values =>
         /\ i = Len(retry.outcomes)
         /\ retry.pc = "returned"
         /\ retry.result = retry.outcomes[i]
  /\ retry.pc = "returned" =>
       /\ retry.outcomes # <<>>
       /\ retry.outcomes[Len(retry.outcomes)] \in Values

\* C11 witness: maxAttempts = 3, two failures then a success, returned after
\* three invocations
C11_Witness ==
  /\ retry.maxAttempts = 3
  /\ retry.pc = "returned"
  /\ retry.outcomes = <<"Error", "Error", "v">>
  /\ retry.result = "v"
  /\ retry.calls = 3

\* C12: when the retry predicate rejects the error of a failed attempt, or
\* that attempt was the maxAttempts-th, execute raises at once a wrapping
\* error citing the number of attempts made, without calling the observer
\* hook or sleeping, and makes no further attempt; the default predicate
\* rejects exactly ValidationError, AuthenticationError, AuthorizationError.
C12_StopsWhenNotRetryableOrExhausted ==
  [][ /\ ( /\ retry.pc = "fn"
           /\ retry'.pc # "fn"
           /\ retry'.outcomes[Len(retry'.outcomes)] \in ErrNames )
        => /\ ~retry.custom =>
                retry'.verdict =
                  (retry'.outcomes[Len(retry'.outcomes)] \notin
                     {"ValidationError", "AuthenticationError", "AuthorizationError"})
           /\ (~retry'.verdict \/ retry.calls = retry.maxAttempts)
                => /\ retry'.pc = "raised"
                   /\ retry'.wrapped
                   /\ retry'.cited = retry.calls
                   /\ retry'.hookCalls = retry.hookCalls
                   /\ retry'.sleeps = retry.sleeps
      /\ retry.pc = "raised" => retry' = retry ]_vars

\* C12 witness: the default predicate refused a ValidationError on the
\* second of three attempts
C12_Witness ==
  /\ ~retry.custom
  /\ retry.maxAttempts = 3
  /\ retry.pc = "raised"
  /\ retry.outcomes = <<"Error", "ValidationError">>
  /\ retry.cited = 2
  /\ retry.hookCalls = 1

\* the node's execution has a dead-letter entry
Recorded(n) == \E i \in 1..Len(dlq) : dlq[i].nodeId = n

\* the fallback of node n has been invoked after all the attempts failed
FallbackInOrder(n) ==
  /\ task[n].fallbackCalls <= 1
  /\ task[n].fallbackCalls = 1 =>
       /\ task[n].logicCalls = Max(1, NodeCfg(n).maxAttempts)
       /\ task[n].pc # "logic"
       /\ validateInputs(n, task[n].inputs) = ""

CallMade == cb'.calls = cb.calls + 1

\* fn rejects in this step
FailureSeen == cb.pc = "fn" /\ cb'.pc = "idle" /\ cb'.last = "failure"

\* the number of records of f that lie inside the failure window at time t
InWindow(f, t) ==
  Cardinality({i \in 1..Len(f) : t - f[i] < BreakerCfg.failureWindow})

\* C14: a call made while the breaker is OPEN and less than resetTimeout
\* after it opened is rejected without invoking fn, and leaves the state, the
\* failure history, the success counter and the next-attempt time as they were.
C14_OpenBreakerRejectsWithoutTrace ==
  [][ ( /\ CallMade
        /\ cb.b.state = "OPEN"
        /\ now - cb.openedAt < BreakerCfg.resetTimeout )
      => ( /\ cb'.rejected = cb.rejected + 1
           /\ cb'.fnCalls = cb.fnCalls
           /\ cb'.pc = "idle"
           /\ cb'.b = cb.b ) ]_vars

\* C14 witness: a call was rejected one time unit after two failures opened
\* the breaker
C14_Witness ==
  /\ cb.last = "rejected"
  /\ cb.b.state = "OPEN"
  /\ cb.openedOn # <<>>
  /\ now = cb.openedAt + 1
  /\ cb.fnCalls = 2

\* C15: a call made while the breaker is OPEN and resetTimeout or more after
\* it opened takes the breaker to HALF_OPEN and invokes fn.
C15_ElapsedTimeoutAdmitsProbe ==
  [][ ( /\ CallMade
        /\ cb.b.state = "OPEN"
        /\ now - cb.openedAt >= BreakerCfg.resetTimeout )
      => ( /\ cb'.b.state = "HALF_OPEN"
           /\ cb'.fnCalls = cb.fnCalls + 1
           /\ cb'.rejected = cb.rejected
           /\ cb'.pc = "fn" ) ]_vars

\* C15 witness: the breaker was opened by failures and a later call is
\* pending in HALF_OPEN
C15_Witness ==
  /\ cb.b.state = "HALF_OPEN"
  /\ cb.pc = "fn"
  /\ cb.probe
  /\ cb.openedOn # <<>>
  /\ now >= cb.openedAt + BreakerCfg.resetTimeout

\* C16: a failure seen while CLOSED or HALF_OPEN is recorded with its time,
\* the records outside failureWindow are dropped, and the breaker goes to
\* OPEN with next-attempt time now + resetTimeout exactly when the records
\* that remain number failureThreshold or more; otherwise its state stays.
C16_FailureOpensAtThreshold ==
  [][ (FailureSeen /\ cb.b.state \in {"CLOSED", "HALF_OPEN"})
      => LET remaining == InWindow(cb.b.failures, now) + 1
         IN /\ Len(cb'.b.failures) = remaining
            /\ cb'.b.failures[Len(cb'.b.failures)] = now
            /\ \A i \in 1..Len(cb'.b.failures) :
                 now - cb'.b.failures[i] < BreakerCfg.failureWindow
            /\ IF remaining >= BreakerCfg.failureThreshold
               THEN /\ cb'.b.state = "OPEN"
                    /\ cb'.b.nextAttemptTime = now + BreakerCfg.resetTimeout
               ELSE /\ cb'.b.state = cb.b.state
                    /\ cb'.b.nextAttemptTime = cb.b.nextAttemptTime ]_vars

\* C16 witness: the third call's failure has just opened the breaker, the
\* failures kept inside the window being those of the last two instants
C16_Witness ==
  /\ cb.last = "failure"
  /\ cb.b.state = "OPEN"
  /\ cb.b.failures = <<now - 1, now>>
  /\ cb.fnCalls = 3

\* C17 (as claimed): the breaker leaves HALF_OPEN for CLOSED on a success
\* only when successThreshold successes in a row have been seen since it
\* entered HALF_OPEN.
C17_ClosesOnConsecutiveSuccesses ==
  [][ (cb.b.state = "HALF_OPEN" /\ cb'.b.state = "CLOSED" /\ cb'.last = "success")
      => cb'.streak >= BreakerCfg.successThreshold ]_vars

C19_NoStaleFailureStored ==
  \A i \in 1..Len(cb.b.failures) : now - cb.b.failures[i] <= BreakerCfg.failureWindow

\* C19 (amended): right after a failure is recorded the stored failure list
\* holds no record as old as failureWindow, and getFailureCount counts the
\* records inside the window only.
C19_NoStaleFailureAfterFailure ==
  [][ /\ FailureSeen =>
           \A i \in 1..Len(cb'.b.failures) :
             now - cb'.b.failures[i] < BreakerCfg.failureWindow
      /\ getFailureCount(cb'.b, now') = InWindow(cb'.b.failures, now') ]_vars

\* C19 witness: a failure was recorded while the list held a record older
\* than the window, and the list holds the new record only
C19_Witness ==
  /\ cb.last = "failure"
  /\ cb.fnCalls = 2
  /\ cb.rejected = 0
  /\ cb.b.failures = <<now>>
  /\ now >= BreakerCfg.failureWindow

\* C20 (as claimed): the dead-letter store never holds more than maxEntries
\* entries, whatever adds, loads, markProcessed, removes, clears and sweeps
\* have been made.
C20_StoreWithinCapacity == Len(store.entries) <= DlqCfg.maxEntries

\* C21: eviction is oldest-first.  While add is the only operation that has
\* changed the membership of an initially empty queue, after k adds the
\* store holds exactly the min(k, maxEntries) most recently added entries,
\* in the order of their addition, also when entries carry the same timestamp
C21_KeepsMostRecentlyAdded ==
  store # NoCall /\ store.addsOnly =>
    LET k == store.seq
        kept == Min(k, DlqCfg.maxEntries)
    IN /\ Len(store.entries) = kept
       /\ \A i \in 1..kept : store.entries[i].id = k - kept + i

\* C21 witness: three adds at the same instant to a queue of capacity two
\* have evicted the first entry
C21_Witness ==
  /\ store # NoCall /\ store.addsOnly
  /\ store.seq = DlqCfg.maxEntries + 1
  /\ now = 0
  /\ Len(store.entries) = DlqCfg.maxEntries
  /\ \A i \in 1..Len(store.entries) : store.entries[i].timestamp = 0

StepAt(log, step) == {i \in 1..Len(log) : log[i] = step}

AddBegins == store'.seq = store.seq + 1

SaveSettles == store.saving # <<>> /\ store'.saving = <<>>

\* C22 as stated: add evicts the entries beyond capacity only after it has
\* invoked the save hook and the "added" observer
C22_EvictsAfterHooks ==
  store # NoCall =>
    \A i \in StepAt(store.log, "evict") :
      \A j \in StepAt(store.log, "save") \cup StepAt(store.log, "observer") : j < i

\* C22 amended: add assigns id and timestamp, stores the entry, evicts the
\* oldest entries beyond capacity, and only then invokes the save hook and,
\* once save has resolved, the observer; the hooks run on a store that is
\* already within capacity and the queue is not touched after them
C22_EvictsBeforeHooks ==
  [][ /\ AddBegins =>
           /\ store'.log \in {<<"id", "store", "save">>, <<"id", "store", "evict", "save">>}
           /\ StepAt(store'.log, "evict") # {} <=> Len(store.entries) >= DlqCfg.maxEntries
           /\ Len(store'.entries) <= DlqCfg.maxEntries
           /\ store'.entries[Len(store'.entries)] = store'.saving[1]
           /\ store'.saving[1].id = store'.seq /\ store'.saving[1].timestamp = now
      /\ SaveSettles =>
           /\ store'.entries = store.entries
           /\ store'.log \in {store.log, Append(store.log, "observer")}
           /\ store'.log = store.log <=> store'.persisted = store.persisted ]_vars

\* C22 witness: an add that had to evict has gone through save and observer
C22_Witness ==
  store # NoCall /\ store.log = <<"id", "store", "evict", "save", "observer">>

\* the entries that executions of node n have created: every entry is
\* handed to the persistence handler when it is created
Created(n) == {i \in 1..Len(store.persisted) : store.persisted[i].nodeId = n}

FailurePath(n) ==
  \/ task[n].pc \in {"save", "raised"}
  \/ task[n].pc = "done" /\ ~task[n].result.success

\* the entries of the queue are created by add, with the next id
CreatedByAdd(e) == e.id = dlqSeq + 1 /\ dlqSeq' = dlqSeq + 1 /\ ~e.processed

\* an entry that a step leaves in the queue is as it was before the step, or
\* has been marked processed by it
KeptOrMarked(e) ==
  \E old \in SeqToSet(dlq) : e = old \/ e = [old EXCEPT !.processed = TRUE]

CyclicGraph == \E n \in SeqToSet(nodes) : n \in ReachableFrom(Successors({n}))

\* the greatest member of a non-empty set of numbers
Greatest(S) == CHOOSE x \in S : \A y \in S : y <= x

\* the level of a node of an acyclic graph, as the claim defines it
RECURSIVE LevelByRule(_)
LevelByRule(n) ==
  IF DirectDeps(n) = {} THEN 0
  ELSE 1 + Greatest({LevelByRule(d) : d \in DirectDeps(n)})

\* the positions of node n in the planned levels: <<level, place>>
PlacesOf(n) ==
  {<<i, k>> \in (1..Len(run.plan)) \X (1..Cardinality(SeqToSet(nodes))) :
     k <= Len(run.plan[i]) /\ run.plan[i][k] = n}

\* C24: the levels built for an acyclic graph hold every node exactly once,
\* a node standing in the level the rule gives it (0 without incoming
\* connections, else 1 + the greatest level of its direct dependencies),
\* levels in ascending order and none of them empty, so that every
\* connection goes from a lower level to a higher one; A->C, B->C, C->D
\* gives [[A,B],[C],[D]]
C24_LevelsFollowTheRule ==
  run.mode = "par" /\ run.state # "idle" =>
    /\ run.state = "planned" <=> ~CyclicGraph
    /\ run.state = "planned" =>
         /\ \A n \in SeqToSet(nodes) :
              /\ Cardinality(PlacesOf(n)) = 1
              /\ \A pl \in PlacesOf(n) : pl[1] = LevelByRule(n) + 1
         /\ \A i \in 1..Len(run.plan) : run.plan[i] # <<>>
         /\ \A e \in Edges : \A pu \in PlacesOf(e[1]), pv \in PlacesOf(e[2]) : pu[1] < pv[1]
         /\ (nodes = <<"A", "B", "C", "D">>
               /\ Edges = {<<"A", "C">>, <<"B", "C">>, <<"C", "D">>})
             => run.plan = << <<"A", "B">>, <<"C">>, <<"D">> >>

\* C24 witness: the levels of A->B, B->C, A->C and D on its own, where C's
\* dependencies stand in different levels
C24_Witness ==
  /\ run.state = "planned"
  /\ Edges = {<<"A", "B">>, <<"B", "C">>, <<"A", "C">>}
  /\ run.plan = << <<"A", "D">>, <<"B">>, <<"C">> >>

\* the latest call, as the step that makes it leaves it
TheCall == graph'.call

GraphUnchanged ==
  /\ nodes' = nodes /\ connections' = connections /\ events' = events
  /\ graph'.objects = graph.objects

PortsOf(node) == node.inputs \o node.outputs

DuplicatedPorts(node) ==
  \E i, j \in 1..Len(PortsOf(node)) : i # j /\ PortsOf(node)[i].id = PortsOf(node)[j].id

MalformedPorts(node) ==
  \E i \in 1..Len(PortsOf(node)) : "" \in {PortsOf(node)[i].id, PortsOf(node)[i].name,
                                           PortsOf(node)[i].dataType}

ConnIds(conns) == {conns[i].id : i \in 1..Len(conns)}

\* the data types of the output ports `port` of node n, of its input ports
OutTypes(objects, n, port) ==
  {objects[n].outputs[i].dataType :
     i \in {i \in 1..Len(objects[n].outputs) : objects[n].outputs[i].id = port}}

InTypes(objects, n, port) ==
  {objects[n].inputs[i].dataType :
     i \in {i \in 1..Len(objects[n].inputs) : objects[n].inputs[i].id = port}}

UnknownEndpoint(ns, objects, c) ==
  \/ c.fromNode \notin SeqToSet(ns) \/ c.toNode \notin SeqToSet(ns)
  \/ OutTypes(objects, c.fromNode, c.fromPort) = {}
  \/ InTypes(objects, c.toNode, c.toPort) = {}

MismatchedTypes(ns, objects, c) ==
  /\ ~UnknownEndpoint(ns, objects, c)
  /\ \E ft \in OutTypes(objects, c.fromNode, c.fromPort),
        tt \in InTypes(objects, c.toNode, c.toPort) : ft # tt /\ "any" \notin {ft, tt}

\* the calls the claim says are rejected
MustBeRejected ==
  \/ TheCall.op = "addNode"
       /\ (DuplicatedPorts(TheCall.arg) \/ MalformedPorts(TheCall.arg))
  \/ TheCall.op = "removeNode" /\ TheCall.id \notin SeqToSet(nodes)
  \/ TheCall.op = "removeConnection" /\ TheCall.id \notin ConnIds(connections)
  \/ TheCall.op = "addConnection"
       /\ (UnknownEndpoint(nodes, graph.objects, TheCall.arg)
             \/ MismatchedTypes(nodes, graph.objects, TheCall.arg))

\* C25: a rejected graph mutation is an atomic no-op.  addNode of a node
\* with duplicated or malformed ports, removeNode and removeConnection of an
\* unknown id, addConnection with an unknown endpoint or mismatched types
\* (neither "any") throw; a call that throws leaves nodes and connections as
\* they were and emits no event; a connection that is put in the map has
\* known endpoints and compatible types, so a string->number one never is
C25_RejectedMutationIsNoOp ==
  [][ /\ MustBeRejected => TheCall.raised
      /\ TheCall.raised => GraphUnchanged
      /\ \A i \in 1..Len(connections') :
           connections'[i] \notin SeqToSet(connections) =>
             /\ ~UnknownEndpoint(nodes, graph.objects, connections'[i])
             /\ ~MismatchedTypes(nodes, graph.objects, connections'[i]) ]_vars

\* C25 witness: the string output of A and the number input of B are there,
\* addConnection A->B has thrown
C25_Witness ==
  /\ graph # NoCall
  /\ graph.call.op = "addConnection" /\ graph.call.raised
  /\ graph.call.arg = Conn("A", "B")
  /\ {"A", "B"} \subseteq SeqToSet(nodes)
  /\ OutTypes(graph.objects, "A", "out") = {"string"}
  /\ InTypes(graph.objects, "B", "in") = {"number"}
  /\ connections = <<Conn("B", "A")>>

\* C26: every stored connection's endpoints resolve to live node+port
\* pairs, whatever calls of addNode, removeNode, addConnection and
\* removeConnection have been made
C26_EndpointsAreLive ==
  graph # NoCall =>
    \A i \in 1..Len(connections) : ~UnknownEndpoint(nodes, graph.objects, connections[i])

\* C27: removeNode(n) of a known node cascades: afterwards n is not among
\* the nodes, no connection has n as fromNode or toNode, and the connections
\* that do not touch n are all there, unchanged and in their order; the
\* other nodes stay
C27_RemoveNodeCascades ==
  [][ TheCall.op = "removeNode" /\ TheCall.id \in SeqToSet(nodes) =>
        /\ ~TheCall.raised
        /\ TheCall.id \notin SeqToSet(nodes')
        /\ SeqToSet(nodes') = SeqToSet(nodes) \ {TheCall.id}
        /\ \A i \in 1..Len(connections') :
             TheCall.id \notin {connections'[i].fromNode, connections'[i].toNode}
        /\ connections' = SelectSeq(connections,
                              LAMBDA c : TheCall.id \notin {c.fromNode, c.toNode}) ]_vars

\* C27 witness: A has been removed with the connections A->B and B->A that
\* touched it, the connection B->B is still there
C27_Witness ==
  /\ graph # NoCall
  /\ graph.call.op = "removeNode" /\ graph.call.id = "A" /\ ~graph.call.raised
  /\ nodes = <<"B">>
  /\ connections = <<Conn("B", "B")>>
  /\ Len(events) = 6

RequiredMissing(n) == NodeCfg(n).required /\ "in" \notin DOMAIN task[n].inputs

InvalidValue(n) ==
  /\ NodeCfg(n).inValidated
  /\ "in" \in DOMAIN task[n].inputs
  /\ ~validator(task[n].inputs["in"])

\* C28: a node whose required input is missing or whose input value its
\* validator refuses never invokes its logic (nor, when resilient, the retry
\* policy, the breaker or the fallback), and its result is a failure whose
\* error names that port
C28_RefusedInputsNeverReachLogic ==
  \A n \in DOMAIN task :
    (task[n].pc \notin {"idle", "called"} /\ (RequiredMissing(n) \/ InvalidValue(n))) =>
      /\ task[n].logicCalls = 0 /\ task[n].calls = 0 /\ task[n].fallbackCalls = 0
      /\ task[n].attempt = 0
      /\ breaker[n] = NewBreaker
      /\ task[n].pc \in {"save", "done"}
      /\ task[n].pc = "done" =>
           /\ ~task[n].result.success
           /\ task[n].result.errNode = n /\ task[n].result.errPort = "in"

\* C29: with suppressErrors, an execution of a resilient node that has taken
\* its failure path returns an empty output map and no failure indicator:
\* the result is not marked as failed and carries no error
C29_SuppressedFailureLooksClean ==
  \A n \in DOMAIN task :
    (NodeCfg(n).resilient /\ NodeCfg(n).suppressErrors
       /\ task[n].pc = "done" /\ task[n].sinkCalls = 1) =>
      /\ task[n].result.hasOutputs /\ task[n].result.outputs = EmptyMap
      /\ task[n].result.success
      /\ task[n].result.errNode = ""

\* initialDelay * multiplier^k and maxDelay, both times the denominator of
\* multiplier^k
ScaledBackoff(cfg, k) == cfg.initialDelay * Pow(cfg.backoffMultiplier[1], k)

ScaledCap(cfg, k) == cfg.maxDelay * Pow(cfg.backoffMultiplier[2], k)

Scale(cfg, k) == Pow(cfg.backoffMultiplier[2], k)

AttemptsDelayed == 1..Len(retry.delays)

Emitted == SubSeq(events', Len(events) + 1, Len(events'))

\* the connections that touch node id before the step
Touching(id) == {c \in SeqToSet(connections) : id \in {c.fromNode, c.toNode}}

\* C31: every successful mutating operation emits its lifecycle event, after
\* the events emitted before: addNode emits NODE_ADDED, addConnection
\* CONNECTION_ADDED, removeConnection CONNECTION_REMOVED, and removeNode one
\* CONNECTION_REMOVED for each connection that touched the node followed by
\* exactly one NODE_REMOVED
C31_MutationsEmitLifecycleEvents ==
  [][ ~TheCall.raised =>
        /\ Len(events') > Len(events)
        /\ SubSeq(events', 1, Len(events)) = events
        /\ TheCall.op = "addNode" => Emitted = <<Event("NODE_ADDED", TheCall.id)>>
        /\ TheCall.op = "addConnection" =>
             Emitted = <<Event("CONNECTION_ADDED", TheCall.id)>>
        /\ TheCall.op = "removeConnection" =>
             Emitted = <<Event("CONNECTION_REMOVED", TheCall.id)>>
        /\ TheCall.op = "removeNode" =>
             LET k == Cardinality(Touching(TheCall.id))
             IN /\ Len(Emitted) = k + 1
                /\ Emitted[k + 1] = Event("NODE_REMOVED", TheCall.id)
                /\ {Emitted[i] : i \in 1..k}
                     = {Event("CONNECTION_REMOVED", c.id) : c \in Touching(TheCall.id)} ]_vars

\* C31 witness: B has been removed while A->B and B->A touched it; two
\* CONNECTION_REMOVED and then NODE_REMOVED are the latest events
C31_Witness ==
  /\ graph # NoCall
  /\ graph.call.op = "removeNode" /\ graph.call.id = "B" /\ ~graph.call.raised
  /\ Len(events) = 7
  /\ {events[5], events[6]} = {Event("CONNECTION_REMOVED", <<"A", "B">>),
                               Event("CONNECTION_REMOVED", <<"B", "A">>)}
  /\ events[7] = Event("NODE_REMOVED", "B")

\* the positions of the events of that type and node
EventsOf(type, n) == {k \in 1..Len(events) : events[k] = Event(type, n)}

TerminalOf(n) == EventsOf("EXECUTION_COMPLETED", n) \cup EventsOf("EXECUTION_FAILED", n)

\* C32: every node executed in a run has one EXECUTION_STARTED and, once its
\* executeNode call is over, exactly one terminal event after it:
\* EXECUTION_COMPLETED when its result is successful, EXECUTION_FAILED when
\* it is not; a run that fails on a structural error has emitted one
\* run-level EXECUTION_FAILED and no node event
C32_StartedThenOneTerminalEvent ==
  /\ \A n \in DOMAIN task :
       /\ task[n].pc # "idle" => Cardinality(EventsOf("EXECUTION_STARTED", n)) = 1
       /\ task[n].pc = "idle" => EventsOf("EXECUTION_STARTED", n) = {}
       /\ \A k \in TerminalOf(n) : \E s \in EventsOf("EXECUTION_STARTED", n) : s < k
       /\ task[n].pc \in InFlight => TerminalOf(n) = {}
       /\ task[n].pc \in {"done", "raised"} => Cardinality(TerminalOf(n)) = 1
       /\ task[n].pc = "done" =>
            TerminalOf(n) = EventsOf(IF task[n].result.success THEN "EXECUTION_COMPLETED"
                                     ELSE "EXECUTION_FAILED", n)
  /\ (run.state = "raised" /\ run.plan = <<>>) => events = <<Event("EXECUTION_FAILED", "")>>
  /\ Cardinality(EventsOf("EXECUTION_FAILED", "")) = (IF run.state = "raised" THEN 1 ELSE 0)

\* the position of node n in the order a sequential plan holds
PlaceInOrder(n) == {i \in 1..Len(run.plan) : run.plan[i] = <<n>>}

\* C33: the order computed by sequential execute is a topological order: it
\* holds every node exactly once and nothing else, and every node comes
\* after all the nodes it depends on; an acyclic graph always gets an order
C33_OrderIsTopological ==
  /\ (run.mode = "seq" /\ run.state = "planned") =>
       /\ Len(run.plan) = Len(nodes)
       /\ \A n \in SeqToSet(nodes) : Cardinality(PlaceInOrder(n)) = 1
       /\ \A n \in SeqToSet(nodes) : \A d \in DirectDeps(n) :
            \A i \in PlaceInOrder(n) : \E j \in PlaceInOrder(d) : j < i
  /\ (run.mode = "seq" /\ ~CyclicGraph) => run.state = "planned"

\* C33 witness: the diamond A->B, A->C, B->D, C->D with the nodes inserted
\* D first has been ordered A, B, C, D or A, C, B, D
C33_Witness ==
  /\ run.mode = "seq" /\ run.state = "planned"
  /\ nodes = <<"D", "C", "B", "A">>
  /\ Edges = {<<"A", "B">>, <<"A", "C">>, <<"B", "D">>, <<"C", "D">>}
  /\ run.plan[1] = <<"A">> /\ run.plan[4] = <<"D">>

\* a call that awaited fn has seen it resolve / reject
CallSucceeds == InFlightCalls' = InFlightCalls - 1 /\ cb'.fails = <<>>

CallFails == InFlightCalls' = InFlightCalls - 1 /\ cb'.fails # <<>>

C35_HalfOpenLimitsTrials ==
  (cb.b.state = "HALF_OPEN" /\ cb.issued >= 2) => cb.pending.trial < cb.issued

BreakerEdges ==
  {<<"CLOSED", "OPEN">>, <<"OPEN", "HALF_OPEN">>, <<"HALF_OPEN", "CLOSED">>,
   <<"HALF_OPEN", "OPEN">>}

\* C39: driven by execute calls alone, several of them in flight at once,
\* the breaker changes state only along CLOSED->OPEN, OPEN->HALF_OPEN,
\* HALF_OPEN->CLOSED and HALF_OPEN->OPEN: never from OPEN to CLOSED nor from
\* CLOSED to HALF_OPEN
C39_StateChangesAlongTheEdges ==
  [][ cb'.b.state # cb.b.state => <<cb.b.state, cb'.b.state>> \in BreakerEdges ]_vars

\* C39 witness: the breaker has opened and has closed again, while a call
\* made before it opened is still in flight
C39_Witness ==
  /\ cb # NoCall
  /\ cb.b.state = "CLOSED"
  /\ cb.b.nextAttemptTime > 0
  /\ cb.pending.call = 1

RunOver == run.state \in {"returned", "raised"}

\* C36: once execute or executeParallel has returned or raised, no node of
\* the run is still executing: the executing set is empty, no task of the
\* run is in flight, and so nothing more is written to the result map
C36_NothingRunsAfterTheRun ==
  RunOver =>
    /\ executingNodes = {}
    /\ \A n \in DOMAIN task : task[n].pc \notin InFlight

\* C38: cycle detection has no false positives: on an acyclic graph, with
\* diamonds and with several connections between the same two nodes,
\* neither buildExecutionOrder nor buildExecutionLevels raises
C38_AcyclicGraphIsPlanned ==
  (~CyclicGraph /\ run.state # "idle") => (run.state = "planned" /\ run.plan # <<>>)

\* C38 witness: B and C share the ancestor A, A feeds B through two
\* connections, and buildExecutionLevels has returned the three levels
C38_Witness ==
  /\ run.mode = "par" /\ run.state = "planned"
  /\ SeqToSet(connections) = {Conn("A", "B"), Link2("A", "B"), Conn("A", "C"), Conn("B", "C")}
  /\ run.plan = << <<"A", "D">>, <<"B">>, <<"C">> >>

\* the part of a result the claim compares: the success flag and the outputs
Visible(result) == [success |-> result.success, outputs |-> result.outputs]

\* C37: on one graph with deterministic node logic and the same initial
\* inputs, the result map a run returns agrees node by node, on the success
\* flag and on the output values, with the map the earlier run returned,
\* whichever of execute and executeParallel each of them was and in
\* whatever order the nodes of a level have settled
C37_BothModesAgree ==
  (graph.first # <<>> /\ run.state = "returned") =>
    /\ DOMAIN executionResults = DOMAIN graph.first.results
    /\ DOMAIN executionResults = SeqToSet(nodes)
    /\ \A n \in DOMAIN executionResults :
         Visible(executionResults[n]) = Visible(graph.first.results[n])

\* C37 witness: R and P feed Q through the same port, P echoes "v" and R
\* swaps it to "x"; execute and then executeParallel have both returned,
\* with "v", the value of the later connection, having reached Q
C37_Witness ==
  /\ graph # NoCall
  /\ graph.first # <<>> /\ graph.first.mode = "seq"
  /\ run.mode = "par" /\ run.state = "returned"
  /\ connections = <<Conn("R", "Q"), Conn("P", "Q")>>
  /\ graph.logic = [n \in PlainIds |-> IF n = "R" THEN "swap" ELSE "echo"]
  /\ executionResults["R"].outputs = ("out" :> "x")
  /\ executionResults["Q"].outputs = ("out" :> "v")

\* C40: on an acyclic graph whose nodes' logic and fallback settle and whose
\* retry policies give up after maxAttempts, a run that has started
\* eventually returns, every started node having emitted its terminal event
C40_StartedRunReturns ==
  (run.state = "running")
    ~> (run.state = "returned" /\ \A n \in NodeIds : Started(n) => TerminalOf(n) # {})

====
